---- MODULE Spec2Model ----
(***************************************************************************)
(* The topic-explainer pipeline: orchestrator.py (the coordinator),         *)
(* planner.py, explainer.py (generate, revise), critic.py (the critique /   *)
(* revision loop), notes_creator.py, the backend adapter query_ollama and   *)
(* the slug and approval helpers.                                           *)
(*                                                                          *)
(* A text is a sequence of characters, a character a one-character string;  *)
(* a code point outside ASCII is written "U+XXXX".  The run directory is a  *)
(* function from file names to file contents.                               *)
(***************************************************************************)
EXTENDS Integers, Sequences, FiniteSets, TLC

VARIABLES
    files,              \* the run directory: file name -> content
    prompts,            \* the prompts directory: file name -> content
    launched,           \* commands started from the shell so far
    epc,                \* explainer.py: position ("off" when not running)
    eparent,            \* who started explainer.py: "shell" or "critic"
    eargs,              \* explainer.py: sys.argv[2:], as <<path>> or <<path, path>>
    elocal,             \* explainer.py: the texts loaded / obtained so far
    eexit,              \* explainer.py: exit code of the last run (-1: none yet)
    cpc,                \* critic.py: position ("off" when not running)
    explanation_path,   \* critic.py main: sys.argv[1]
    iteration,          \* critic.py main: the loop variable (0: not bound yet)
    previous_critique,  \* critic.py main
    clocal,             \* critic.py main: explanation, critique, critique_path
    cexit,              \* critic.py: exit code of the last run (-1: none yet)
    calls,              \* observed: backend and subprocess calls of the critic run
    generated,          \* observed: per path, the responses module_generate wrote
    opc,                \* orchestrator.py: position ("off" when not running)
    otopic,             \* orchestrator.py main: topic
    oexit,              \* orchestrator.py: exit code (-1: none yet)
    ppc,                \* planner.py: position
    plocal,             \* planner.py main: the texts obtained so far
    pexit,              \* planner.py: exit code (-1: none yet)
    npc,                \* notes_creator.py: position
    nexit,              \* notes_creator.py: exit code (-1: none yet)
    invoked,            \* observed: the stages run_step has started, in order
    removals,           \* files removed from the run directory by another process
    other,              \* a second critic.py run on the same explanation
    arg,                \* argument of the helper function applied
    ret,                \* its result
    called              \* whether the helper has been applied

vars == <<files, prompts, launched, epc, eparent, eargs, elocal, eexit,
          cpc, explanation_path, iteration, previous_critique, clocal, cexit,
          calls, generated, opc, otopic, oexit, ppc, plocal, pexit, npc, nexit,
          invoked, removals, other, arg, ret, called>>

pipelineVars == <<files, prompts, launched, epc, eparent, eargs, elocal, eexit,
                  cpc, explanation_path, iteration, previous_critique, clocal,
                  cexit, calls, generated, opc, otopic, oexit, ppc, plocal,
                  pexit, npc, nexit, invoked, removals, other>>

helperVars == <<arg, ret, called>>

coordinatorVars == <<opc, otopic, oexit, ppc, plocal, pexit, npc, nexit, invoked,
                     removals, other>>

-----------------------------------------------------------------------------
(* Configuration constants of the source.                                  *)

\* critic.py:46
MAX_ITERATIONS == 4

\* critic.py:47  "VERDICT: APPROVED"
APPROVED_SIGNAL == <<"V","E","R","D","I","C","T",":"," ","A","P","P","R","O","V","E","D">>

\* critic.py:45
ACTIVE_CRITIQUE_FILE == <<"a","c","t","i","v","e","_","c","r","i","t","i","q","u","e",".","t","x","t">>

\* critic.py:43, explainer.py:40
MODEL_NAME == <<"l","l","a","m","a","3",".","2",":","3","b">>

\* critic.py:44
CRITIC_PROMPT_FILE == <<"c","r","i","t","i","c","_","s","y","s","t","e","m","_","p","r","o","m","p","t",".","t","x","t">>

\* explainer.py:41
EXPLAINER_PROMPT_FILE == <<"e","x","p","l","a","i","n","e","r","_","s","y","s","t","e","m","_","p","r","o","m","p","t",".","t","x","t">>

\* explainer.py:42
REVISER_PROMPT_FILE == <<"r","e","v","i","s","e","r","_","s","y","s","t","e","m","_","p","r","o","m","p","t",".","t","x","t">>

\* the width of the '=' rule in every header ('=' * 60)
RULE_WIDTH == 60

-----------------------------------------------------------------------------
(* Python's str operations, on sequences of characters.                    *)

\* str.isspace, for one character
IsSpace(c) == c \in {" ", "\n", "\t", "\r"}

Min(S) == CHOOSE m \in S : \A n \in S : m <= n

\* the one element of a set that holds one
The(S) == CHOOSE x \in S : TRUE

\* str.strip(): from the first to the last character that is no white space
Strip(s) ==
    IF \A i \in 1..Len(s) : IsSpace(s[i]) THEN <<>>
    ELSE LET first == CHOOSE i \in 1..Len(s) :
                          ~IsSpace(s[i]) /\ \A j \in 1..(i - 1) : IsSpace(s[j])
             last  == CHOOSE i \in 1..Len(s) :
                          ~IsSpace(s[i]) /\ \A j \in (i + 1)..Len(s) : IsSpace(s[j])
         IN  SubSeq(s, first, last)

\* str.startswith
StartsWith(s, p) == Len(p) <= Len(s) /\ SubSeq(s, 1, Len(p)) = p

\* str.endswith
EndsWith(s, p) == Len(p) <= Len(s) /\ SubSeq(s, Len(s) - Len(p) + 1, Len(s)) = p

\* `p in s`: a left-to-right scan for the first position where p starts
RECURSIVE StrIn(_, _)
StrIn(p, s) == IF Len(s) < Len(p) THEN FALSE
               ELSE IF StartsWith(s, p) THEN TRUE
               ELSE StrIn(p, Tail(s))

\* "".join(parts)
RECURSIVE Join(_)
Join(parts) == IF parts = <<>> THEN <<>> ELSE Head(parts) \o Join(Tail(parts))

\* c * n
Repeat(c, n) == [i \in 1..n |-> c]

\* the positions of c in s
Positions(s, c) == {i \in 1..Len(s) : s[i] = c}

\* the position of the first c in s, 0 when there is none
IndexOf(s, c) ==
    IF Positions(s, c) = {} THEN 0
    ELSE CHOOSE i \in 1..Len(s) : s[i] = c /\ \A j \in 1..(i - 1) : s[j] # c

\* the position of the last c in s, 0 when there is none
LastIndexOf(s, c) ==
    IF Positions(s, c) = {} THEN 0
    ELSE CHOOSE i \in 1..Len(s) : s[i] = c /\ \A j \in (i + 1)..Len(s) : s[j] # c

\* str.splitlines(): the lines of s, without their line breaks; line k runs
\* from after the (k-1)-th line break to before the k-th, the last line to
\* the end of s
SplitLines(s) ==
    LET breaks   == Positions(s, "\n")
        count    == Cardinality(breaks)
                    + (IF s # <<>> /\ s[Len(s)] # "\n" THEN 1 ELSE 0)
        Break(k) == IF k = 0 THEN 0
                    ELSE IF k > Cardinality(breaks) THEN Len(s) + 1
                    ELSE CHOOSE b \in breaks :
                             Cardinality({a \in breaks : a <= b}) = k
    IN  [k \in 1..count |-> SubSeq(s, Break(k - 1) + 1, Break(k) - 1)]

\* s.split(":", 1)[1]: what follows the first colon (s holds one)
AfterFirstColon(s) == SubSeq(s, IndexOf(s, ":") + 1, Len(s))

UpperAscii == {"A","B","C","D","E","F","G","H","I","J","K","L","M",
               "N","O","P","Q","R","S","T","U","V","W","X","Y","Z"}

LowerAscii == {"a","b","c","d","e","f","g","h","i","j","k","l","m",
               "n","o","p","q","r","s","t","u","v","w","x","y","z"}

DigitAscii == {"0","1","2","3","4","5","6","7","8","9"}

\* letters outside ASCII that the model's inputs use: E-acute, e-acute
UpperOther == {"U+00C9"}

LowerOther == {"U+00E9"}

\* str.lower(), for one character
LowerChar(c) ==
    CASE c = "A" -> "a" [] c = "B" -> "b" [] c = "C" -> "c" [] c = "D" -> "d"
      [] c = "E" -> "e" [] c = "F" -> "f" [] c = "G" -> "g" [] c = "H" -> "h"
      [] c = "I" -> "i" [] c = "J" -> "j" [] c = "K" -> "k" [] c = "L" -> "l"
      [] c = "M" -> "m" [] c = "N" -> "n" [] c = "O" -> "o" [] c = "P" -> "p"
      [] c = "Q" -> "q" [] c = "R" -> "r" [] c = "S" -> "s" [] c = "T" -> "t"
      [] c = "U" -> "u" [] c = "V" -> "v" [] c = "W" -> "w" [] c = "X" -> "x"
      [] c = "Y" -> "y" [] c = "Z" -> "z" [] c = "U+00C9" -> "U+00E9"
      [] OTHER -> c

\* str.lower()
Lower(s) == [i \in 1..Len(s) |-> LowerChar(s[i])]

\* str.isalnum, for one character: Unicode letters and digits, not only ASCII
IsAlnum(c) == c \in UpperAscii \cup LowerAscii \cup DigitAscii
                    \cup UpperOther \cup LowerOther

\* str.replace(" ", "-")
ReplaceSpaces(s) == [i \in 1..Len(s) |-> IF s[i] = " " THEN "-" ELSE s[i]]

\* os.path.basename, of a name inside the run directory
Basename(path) == SubSeq(path, LastIndexOf(path, "/") + 1, Len(path))

\* os.path.splitext(name)[0]: the name up to its last dot, a leading run of
\* dots not counting as an extension
SplitExtRoot(name) ==
    LET i == LastIndexOf(name, ".")
    IN  IF i = 0 \/ (\A j \in 1..i : name[j] = ".") THEN name
        ELSE SubSeq(name, 1, i - 1)

-----------------------------------------------------------------------------
(* The helper functions.                                                   *)

\* a substring test that ignores case
is_approved_anycase(critique_text) ==
    StrIn(Lower(APPROVED_SIGNAL), Lower(critique_text))

\* a prefix test in place of the substring test
is_approved_prefix(critique_text) == StartsWith(critique_text, APPROVED_SIGNAL)

\* critic.py is_approved
is_approved(critique_text) == StrIn(APPROVED_SIGNAL, critique_text)

\* orchestrator.py sanitize_filename
orchestrator_sanitize_filename(topic) ==
    LET safe1 == Strip(Lower(topic))
        safe2 == ReplaceSpaces(safe1)
        safe3 == SelectSeq(safe2, LAMBDA c : IsAlnum(c) \/ c \in {"-", "_"})
    IN  IF safe3 = <<>> THEN <<"l","e","c","t","u","r","e">> ELSE safe3

\* the slug without the lower-casing
planner_sanitize_filename_cased(topic) ==
    LET safe1 == Strip(topic)
        safe2 == ReplaceSpaces(safe1)
        safe3 == SelectSeq(safe2, LAMBDA c : IsAlnum(c) \/ c \in {"-", "_"})
    IN  IF safe3 = <<>> THEN <<"l","e","c","t","u","r","e">> ELSE safe3

\* planner.py sanitize_filename
planner_sanitize_filename(topic) ==
    LET safe1 == Strip(Lower(topic))
        safe2 == ReplaceSpaces(safe1)
        safe3 == SelectSeq(safe2, LAMBDA c : IsAlnum(c) \/ c \in {"-", "_"})
    IN  IF safe3 = <<>> THEN <<"l","e","c","t","u","r","e">> ELSE safe3

\* explainer.py derive_explanation_path, inside the run directory
derive_explanation_path(outline_path) ==
    LET basename == Basename(outline_path)
        suffix   == <<"-","o","u","t","l","i","n","e",".","t","x","t">>
    IN  IF basename = <<"o","u","t","l","i","n","e",".","t","x","t">> THEN <<"e","x","p","l","a","n","a","t","i","o","n",".","t","x","t">>
        ELSE LET slug == IF EndsWith(basename, suffix)
                         THEN SubSeq(basename, 1, Len(basename) - Len(suffix))
                         ELSE SplitExtRoot(basename)
             IN  slug \o <<"-","e","x","p","l","a","n","a","t","i","o","n",".","t","x","t">>

-----------------------------------------------------------------------------
(* The backend: what one POST to Ollama brings back.  urlopen either raises *)
(* URLError (connection refused, or the timeout expired while connecting)   *)
(* or opens a stream of lines; a line is blank, not JSON, JSON of another   *)
(* shape than an object with a message object, or such an object with a     *)
(* message.content token and a done flag.  The timeout may also expire      *)
(* while the next line of the stream is awaited.                            *)

Obj(token, done) == [kind |-> "object", token |-> token, done |-> done]

Unparseable == [kind |-> "unparseable", token |-> <<>>, done |-> FALSE]

BlankLine == [kind |-> "blank", token |-> <<>>, done |-> FALSE]

\* a line json.loads accepts that is not an object holding a message object:
\* `[1]`, `{"message": null}`
NotObject == [kind |-> "not_object", token |-> <<>>, done |-> FALSE]

Stream(lines) == [unreachable |-> FALSE, lines |-> lines, timeout |-> "none"]

\* the stream falls silent after these lines until the timeout expires
Stalled(lines) == [unreachable |-> FALSE, lines |-> lines, timeout |-> "read"]

ReplyUnreachable == [unreachable |-> TRUE, lines |-> <<>>, timeout |-> "none"]

\* the timeout expires while connecting: do_open wraps it in URLError
ReplyConnectTimeout == [unreachable |-> TRUE, lines |-> <<>>, timeout |-> "connect"]

\* the timeout expires after the first token
ReplyReadTimeout == Stalled(<<Obj(<<"F","i","x">>, FALSE)>>)

\* "Fix it", with a blank and an unparseable line on the way
ReplyIssues == Stream(<<Obj(<<"F","i","x">>, FALSE), BlankLine, Unparseable, Obj(<<" ","i","t">>, TRUE)>>)

\* "Fix it", with a line of another shape on the way
ReplyMisshapen == Stream(<<Obj(<<"F","i","x">>, FALSE), NotObject, Obj(<<" ","i","t">>, TRUE)>>)

\* "Good.\nVERDICT: APPROVED": the sentinel, after a remark, split over two tokens
ReplyApproved ==
    Stream(<<Obj(<<"G","o","o","d",".","\n">>, FALSE), Obj(<<"V","E","R","D","I","C","T",":">>, FALSE),
             Obj(<<" ","A","P","P","R","O","V","E","D">>, FALSE), Obj(<<>>, TRUE)>>)

\* whitespace only
ReplyBlank == Stream(<<Obj(<<" ">>, FALSE), Obj(<<"\n">>, TRUE)>>)

\* no token at all
ReplyEmpty == Stream(<<Obj(<<>>, TRUE)>>)

\* what the backend sends in a run of the pipeline
BackendReplies == {ReplyUnreachable, ReplyConnectTimeout, ReplyReadTimeout,
                   ReplyIssues, ReplyMisshapen, ReplyApproved, ReplyBlank,
                   ReplyEmpty}

\* the replies to the critique requests of a review whose critiques differ from
\* one iteration to the next
CritiqueReplies ==
    {ReplyUnreachable, ReplyIssues, Stream(<<Obj(<<"R","e","d","o">>, TRUE)>>),
     ReplyApproved}

\* before any call
NoReply == Stream(<<>>)

\* the loop without its break
RECURSIVE Consume_past_done(_, _)
Consume_past_done(lines, tokens) ==
    IF lines = <<>> THEN tokens
    ELSE LET chunk == Head(lines)
         IN  IF chunk.kind # "object" THEN Consume_past_done(Tail(lines), tokens)
             ELSE Consume_past_done(Tail(lines),
                                    IF chunk.token # <<>>
                                    THEN Append(tokens, chunk.token) ELSE tokens)

\* the loop over the response lines: the tokens appended, up to the first done
RECURSIVE Consume(_, _)
Consume(lines, tokens) ==
    IF lines = <<>> THEN tokens
    ELSE LET chunk == Head(lines)
         IN  IF chunk.kind = "blank" THEN Consume(Tail(lines), tokens)
             ELSE IF chunk.kind = "unparseable" THEN Consume(Tail(lines), tokens)
             ELSE LET appended == IF chunk.token # <<>>
                                  THEN Append(tokens, chunk.token) ELSE tokens
                  IN  IF chunk.done THEN appended
                      ELSE Consume(Tail(lines), appended)

\* how the loop over the response lines ends: at a done flag ("break"), at
\* the end of the stream ("end"), or in chunk.get(...) of a line that is not
\* an object, which raises AttributeError
RECURSIVE LoopEnd(_)
LoopEnd(lines) ==
    IF lines = <<>> THEN "end"
    ELSE LET chunk == Head(lines)
         IN  IF chunk.kind = "blank" THEN LoopEnd(Tail(lines))
             ELSE IF chunk.kind = "unparseable" THEN LoopEnd(Tail(lines))
             ELSE IF chunk.kind = "not_object" THEN "AttributeError"
             ELSE IF chunk.done THEN "break"
             ELSE LoopEnd(Tail(lines))

\* the exception that leaves query_ollama, which catches URLError only:
\* AttributeError from the loop body, TimeoutError from the read of the next
\* line; "none" when the loop ends
Uncaught(reply) ==
    LET end == LoopEnd(reply.lines)
    IN  IF end = "AttributeError" THEN "AttributeError"
        ELSE IF end = "end" /\ reply.timeout = "read" THEN "TimeoutError"
        ELSE "none"

Failed(message) == [ok |-> FALSE, text |-> <<>>, error |-> message]

Returned(text) == [ok |-> TRUE, text |-> text, error |-> "none"]

\* the emptiness test without the strip(): whitespace passes
critic_query_ollama_nostrip(reply) ==
    IF reply.unreachable THEN Failed("Could not reach Ollama")
    ELSE IF Uncaught(reply) # "none" THEN Failed(Uncaught(reply))
    ELSE LET result == Join(Consume(reply.lines, <<>>))
         IN  IF result = <<>> THEN Failed("Empty response from Ollama")
             ELSE Returned(result)

\* critic.py query_ollama: the text returned, or the process ends (sys.exit(1)
\* after an [ERROR] line, or a traceback)
critic_query_ollama(reply) ==
    IF reply.unreachable THEN Failed("Could not reach Ollama")
    ELSE IF Uncaught(reply) # "none" THEN Failed(Uncaught(reply))
    ELSE LET result == Strip(Join(Consume(reply.lines, <<>>)))
         IN  IF result = <<>> THEN Failed("Empty response from Ollama")
             ELSE Returned(result)

\* explainer.py query_ollama
explainer_query_ollama(reply) ==
    IF reply.unreachable THEN Failed("Could not reach Ollama")
    ELSE IF Uncaught(reply) # "none" THEN Failed(Uncaught(reply))
    ELSE LET result == Strip(Join(Consume(reply.lines, <<>>)))
         IN  IF result = <<>> THEN Failed("Received an empty response from Ollama")
             ELSE Returned(result)

-----------------------------------------------------------------------------
(* Files.                                                                  *)

\* os.path.exists
Exists(dir, path) == path \in DOMAIN dir

\* open(path, "w").write(text)
Write(dir, path, text) ==
    [p \in DOMAIN dir \cup {path} |-> IF p = path THEN text ELSE dir[p]]

\* os.remove
Remove(dir, path) == [p \in DOMAIN dir \ {path} |-> dir[p]]

\* load_file (critic.py, explainer.py): the stripped content, or exit(1)
load_file(dir, filepath) ==
    IF ~Exists(dir, filepath) THEN Failed("not found")
    ELSE LET content == Strip(dir[filepath])
         IN  IF content = <<>> THEN Failed("is empty") ELSE Returned(content)

\* datetime.now().strftime("%Y-%m-%d %H:%M:%S"): the wall clock, which need
\* not advance between two calls
Timestamps == {<<"2","0","2","6","-","0","1","-","0","1"," ","0","0",":","0","0",":","0","0">>, <<"2","0","2","6","-","0","1","-","0","1"," ","0","0",":","0","0",":","0","1">>}

Rule == Repeat("=", RULE_WIDTH)

\* explainer.py module_generate: header
generate_header(timestamp, outline_path) ==
    <<"L","E","C","T","U","R","E"," ","E","X","P","L","A","N","A","T","I","O","N","\n">>
    \o Rule \o <<"\n">>
    \o <<"G","e","n","e","r","a","t","e","d"," ",":"," ">> \o timestamp \o <<"\n">>
    \o <<"M","o","d","e","l"," "," "," "," "," ",":"," ">> \o MODEL_NAME \o <<"\n">>
    \o <<"S","o","u","r","c","e"," "," "," "," ",":"," ">> \o Basename(outline_path) \o <<"\n">>
    \o Rule \o <<"\n","\n">>

\* the loop over explanation.splitlines(): the first line that starts with
\* "Source    :", <<>> when the loop ends without a break
FirstSourceLine(lines) ==
    LET hits == {k \in 1..Len(lines) : StartsWith(lines[k], <<"S","o","u","r","c","e"," "," "," "," ",":">>)}
    IN  IF hits = {} THEN <<>> ELSE lines[Min(hits)]

\* explainer.py module_revise: source_name, the basename of the explanation
\* unless a line of it starts with "Source    :"
source_name(explanation, expl_path) ==
    The({IF line = <<>> THEN Basename(expl_path)
         ELSE Strip(AfterFirstColon(line))
           : line \in {FirstSourceLine(lines)
                         : lines \in {SplitLines(explanation)}}})

\* explainer.py module_revise: updated_header
updated_header(timestamp, source, critique_path) ==
    <<"L","E","C","T","U","R","E"," ","E","X","P","L","A","N","A","T","I","O","N","\n">>
    \o Rule \o <<"\n">>
    \o <<"R","e","v","i","s","e","d"," "," "," ",":"," ">> \o timestamp \o <<"\n">>
    \o <<"M","o","d","e","l"," "," "," "," "," ",":"," ">> \o MODEL_NAME \o <<"\n">>
    \o <<"S","o","u","r","c","e"," "," "," "," ",":"," ">> \o source \o <<"\n">>
    \o <<"C","r","i","t","i","q","u","e"," "," ",":"," ">> \o Basename(critique_path) \o <<"\n">>
    \o Rule \o <<"\n","\n">>

\* str(iteration)
RECURSIVE ToDecimal(_)
ToDecimal(n) ==
    LET digit == <<"0","1","2","3","4","5","6","7","8","9">>[(n % 10) + 1]
    IN  IF n < 10 THEN <<digit>> ELSE Append(ToDecimal(n \div 10), digit)

\* critic.py save_critique: header (U+2014 is the em dash)
critique_header(timestamp, iter) ==
    <<"A","C","T","I","V","E"," ","C","R","I","T","I","Q","U","E"," ","U+2014"," ","I","t","e","r","a","t","i","o","n"," ">> \o ToDecimal(iter) \o <<"\n">>
    \o <<"G","e","n","e","r","a","t","e","d",":"," ">> \o timestamp \o <<"\n">>
    \o Rule \o <<"\n","\n">>

-----------------------------------------------------------------------------
(* Inputs.                                                                 *)

\* how many commands the shell starts in one behaviour
MaxCommands == 2

\* outline files a user may pass to `explainer.py generate`
OutlineNames == {<<"o","u","t","l","i","n","e",".","t","x","t">>, <<"m","l","-","o","u","t","l","i","n","e",".","t","x","t">>, <<" ","o",".","m","d">>}

\* a critique file written by hand, as in `explainer.py revise <file> critique.txt`
USER_CRITIQUE_FILE == <<"c","r","i","t","i","q","u","e",".","t","x","t">>

ExplanationNames == {derive_explanation_path(o) : o \in OutlineNames}

CritiqueNames == {ACTIVE_CRITIQUE_FILE, USER_CRITIQUE_FILE}

OutlineText == <<"1","."," ","I","n","t","r","o">>

BlankText == <<" ","\n">>

PromptText == <<"B","e"," ","s","t","r","i","c","t",".">>

PromptNames == {CRITIC_PROMPT_FILE, EXPLAINER_PROMPT_FILE, REVISER_PROMPT_FILE}

AllPrompts == [p \in PromptNames |-> PromptText]

\* the prompts directory as installed, or with one prompt missing or blank
PromptDirs ==
    {AllPrompts}
    \cup {[p \in PromptNames \ {q} |-> PromptText] : q \in PromptNames}
    \cup {[AllPrompts EXCEPT ![q] = BlankText] : q \in PromptNames}

\* a critique left behind by an earlier run that was capped or aborted
StaleCritique ==
    critique_header(CHOOSE t \in Timestamps : TRUE, 2) \o <<"F","i","x"," ","i","t">>

\* the run directory before the first command
InitialDirs ==
    \* an outline, with or without a stale critique
    {[f \in {o} \cup (IF stale THEN {ACTIVE_CRITIQUE_FILE} ELSE {}) |->
         IF f = o THEN OutlineText ELSE StaleCritique]
       : o \in OutlineNames, stale \in BOOLEAN}
    \* an outline and a hand-written critique, blank or not
    \cup {[f \in {<<"o","u","t","l","i","n","e",".","t","x","t">>, USER_CRITIQUE_FILE} |->
             IF f = USER_CRITIQUE_FILE THEN c ELSE OutlineText]
            : c \in {BlankText, <<"F","i","x"," ","i","t">>}}
    \* a blank outline
    \cup {[f \in {<<"o","u","t","l","i","n","e",".","t","x","t">>} |-> BlankText]}

NoLocals == [loaded |-> <<>>, reply |-> NoReply, result |-> <<>>, error |-> "none"]

NoCalls == [critique |-> 0, revise |-> 0, sentinel_at |-> 0,
            returned |-> <<>>]

ExplainerOff ==
    /\ epc = "off" /\ eparent = "shell" /\ eargs = <<>>
    /\ elocal = NoLocals /\ eexit = -1

CriticOff ==
    /\ cpc = "off" /\ explanation_path = <<>> /\ iteration = 0
    /\ previous_critique = <<>> /\ clocal = NoLocals /\ cexit = -1
    /\ calls = NoCalls

\* what the shell shows of a process once another command is started
ForgetExplainer ==
    /\ epc' = "off" /\ eparent' = "shell" /\ eargs' = <<>>
    /\ elocal' = NoLocals /\ eexit' = -1

ForgetCritic ==
    /\ cpc' = "off" /\ explanation_path' = <<>> /\ iteration' = 0
    /\ previous_critique' = <<>> /\ clocal' = NoLocals /\ cexit' = -1
    /\ calls' = NoCalls

HelperOff == arg = <<>> /\ ret = <<>> /\ called = "no"

\* no explanation written by module_generate yet
NoneGenerated == [e \in ExplanationNames |-> <<>>]

\* no second critic.py run
OtherOff ==
    [pc |-> "off", iteration |-> 0, critique |-> <<>>, loaded |-> <<>>,
     result |-> <<>>, saved |-> <<>>, exit |-> -1]

\* orchestrator.py, planner.py and notes_creator.py not started
CoordinatorOff ==
    /\ other = OtherOff
    /\ opc = "off" /\ otopic = <<>> /\ oexit = -1
    /\ ppc = "off" /\ plocal = NoLocals /\ pexit = -1
    /\ npc = "off" /\ nexit = -1
    /\ invoked = <<>> /\ removals = 0

Init ==
    /\ files \in InitialDirs
    /\ prompts \in PromptDirs
    /\ (prompts # AllPrompts => files = [f \in {<<"o","u","t","l","i","n","e",".","t","x","t">>} |-> OutlineText])
    /\ launched = 0
    /\ ExplainerOff
    /\ CriticOff
    /\ generated = NoneGenerated
    /\ CoordinatorOff
    /\ HelperOff

-----------------------------------------------------------------------------
(* The shell: one command at a time.                                       *)

ExplainerStopped == epc \in {"off", "done"}

CriticStopped == cpc \in {"off", "Approved", "Capped", "Fatal"}

Idle == ExplainerStopped /\ CriticStopped

\* python explainer.py generate <outline-file>     (explainer.py main, 296-302)
LaunchGenerate ==
    /\ Idle /\ launched < MaxCommands
    /\ \E o \in OutlineNames :
         /\ epc' = "gen_load" /\ eparent' = "shell" /\ eargs' = <<o>>
    /\ elocal' = NoLocals /\ eexit' = -1
    /\ ForgetCritic
    /\ launched' = launched + 1
    /\ UNCHANGED <<files, prompts, helperVars,
                   generated, coordinatorVars>>

\* python explainer.py revise <explanation-file> <critique-file>  (main, 305-312)
LaunchRevise ==
    /\ Idle /\ launched < MaxCommands
    /\ \E e \in ExplanationNames, c \in CritiqueNames :
         /\ epc' = "rev_load" /\ eparent' = "shell" /\ eargs' = <<e, c>>
    /\ elocal' = NoLocals /\ eexit' = -1
    /\ ForgetCritic
    /\ launched' = launched + 1
    /\ UNCHANGED <<files, prompts, helperVars,
                   generated, coordinatorVars>>

\* python critic.py <explanation-file>             (critic.py main, 233-238)
LaunchCritic ==
    /\ Idle /\ launched < MaxCommands
    /\ \E e \in ExplanationNames : explanation_path' = e
    /\ cpc' = "c_start" /\ iteration' = 0 /\ previous_critique' = <<>>
    /\ clocal' = NoLocals /\ cexit' = -1 /\ calls' = NoCalls
    /\ ForgetExplainer
    /\ launched' = launched + 1
    /\ UNCHANGED <<files, prompts, helperVars,
                   generated, coordinatorVars>>

-----------------------------------------------------------------------------
(* explainer.py                                                            *)

\* load_system_prompt
load_system_prompt(filename) == load_file(prompts, filename)

\* sys.exit(1) after an [ERROR] line
ExplainerFails(message) ==
    /\ epc' = "done" /\ eexit' = 1
    /\ elocal' = [NoLocals EXCEPT !.error = message]

\* module_generate: load the outline and the system prompt
GenerateLoad ==
    /\ epc = "gen_load"
    /\ LET outline == load_file(files, eargs[1])
           prompt  == load_system_prompt(EXPLAINER_PROMPT_FILE)
       IN  IF ~outline.ok THEN ExplainerFails(outline.error)
           ELSE IF ~prompt.ok THEN ExplainerFails(prompt.error)
           ELSE /\ epc' = "gen_query"
                /\ elocal' = [elocal EXCEPT !.loaded = outline.text]
                /\ UNCHANGED eexit
    /\ UNCHANGED <<files, prompts, launched, eparent, eargs, cpc, explanation_path,
                   iteration, previous_critique, clocal, cexit, calls, helperVars,
                   generated, coordinatorVars>>

\* module_generate: explanation = query_ollama(...)
GenerateQuery ==
    /\ epc = "gen_query"
    /\ \E reply \in BackendReplies :
         LET r == explainer_query_ollama(reply)
         IN  IF r.ok
             THEN /\ epc' = "gen_write"
                  /\ elocal' = [elocal EXCEPT !.reply = reply, !.result = r.text]
                  /\ UNCHANGED eexit
             ELSE /\ epc' = "done" /\ eexit' = 1
                  /\ elocal' = [NoLocals EXCEPT !.reply = reply, !.error = r.error]
    /\ UNCHANGED <<files, prompts, launched, eparent, eargs, cpc, explanation_path,
                   iteration, previous_critique, clocal, cexit, calls, helperVars,
                   generated, coordinatorVars>>

\* the output opened for appending
GenerateWrite_appending ==
    /\ epc = "gen_write"
    /\ \E timestamp \in Timestamps :
         LET path == derive_explanation_path(eargs[1])
         IN  files' = Write(files, path,
                            (IF Exists(files, path) THEN files[path] ELSE <<>>)
                            \o generate_header(timestamp, eargs[1])
                            \o elocal.result)
    /\ generated' = [generated EXCEPT ![derive_explanation_path(eargs[1])] =
                                           Append(@, elocal.result)]
    /\ epc' = "done" /\ eexit' = 0 /\ elocal' = NoLocals
    /\ UNCHANGED <<prompts, launched, eparent, eargs, cpc, explanation_path,
                   iteration, previous_critique, clocal, cexit, calls, helperVars,
                   coordinatorVars>>

\* module_generate, 178-190: the header, then `with open(output_path, "w")
\* as f: f.write(header + explanation)`, one statement of the program
GenerateWrite ==
    /\ epc = "gen_write"
    /\ \E timestamp \in Timestamps :
         files' = Write(files, derive_explanation_path(eargs[1]),
                        generate_header(timestamp, eargs[1]) \o elocal.result)
    /\ generated' = [generated EXCEPT ![derive_explanation_path(eargs[1])] =
                                           Append(@, elocal.result)]
    /\ epc' = "done" /\ eexit' = 0 /\ elocal' = NoLocals
    /\ UNCHANGED <<prompts, launched, eparent, eargs, cpc, explanation_path,
                   iteration, previous_critique, clocal, cexit, calls, helperVars,
                   coordinatorVars>>

\* module_revise: load the explanation, the critique and the system prompt
ReviseLoad ==
    /\ epc = "rev_load"
    /\ LET explanation == load_file(files, eargs[1])
           critique    == load_file(files, eargs[2])
           prompt      == load_system_prompt(REVISER_PROMPT_FILE)
       IN  IF ~explanation.ok THEN ExplainerFails(explanation.error)
           ELSE IF ~critique.ok THEN ExplainerFails(critique.error)
           ELSE IF ~prompt.ok THEN ExplainerFails(prompt.error)
           ELSE /\ epc' = "rev_query"
                /\ elocal' = [elocal EXCEPT !.loaded = explanation.text]
                /\ UNCHANGED eexit
    /\ UNCHANGED <<files, prompts, launched, eparent, eargs, cpc, explanation_path,
                   iteration, previous_critique, clocal, cexit, calls, helperVars,
                   generated, coordinatorVars>>

\* the explanation file opened for writing before the backend is asked
ReviseQuery_truncating ==
    /\ epc = "rev_query"
    /\ \E reply \in BackendReplies :
         LET r == explainer_query_ollama(reply)
         IN  IF r.ok
             THEN /\ epc' = "rev_write"
                  /\ elocal' = [elocal EXCEPT !.reply = reply, !.result = r.text]
                  /\ UNCHANGED eexit
             ELSE /\ epc' = "done" /\ eexit' = 1
                  /\ elocal' = [NoLocals EXCEPT !.reply = reply, !.error = r.error]
    /\ files' = Write(files, eargs[1], <<>>)
    /\ UNCHANGED <<prompts, launched, eparent, eargs, cpc, explanation_path,
                   iteration, previous_critique, clocal, cexit, calls, helperVars,
                   generated, coordinatorVars>>

\* module_revise: revised = query_ollama(...)
ReviseQuery ==
    /\ epc = "rev_query"
    /\ \E reply \in BackendReplies :
         LET r == explainer_query_ollama(reply)
         IN  IF r.ok
             THEN /\ epc' = "rev_write"
                  /\ elocal' = [elocal EXCEPT !.reply = reply, !.result = r.text]
                  /\ UNCHANGED eexit
             ELSE /\ epc' = "done" /\ eexit' = 1
                  /\ elocal' = [NoLocals EXCEPT !.reply = reply, !.error = r.error]
    /\ UNCHANGED <<files, prompts, launched, eparent, eargs, cpc, explanation_path,
                   iteration, previous_critique, clocal, cexit, calls, helperVars,
                   generated, coordinatorVars>>

\* module_revise, 231-254: the header, then `with open(explanation_path, "w")
\* as f: f.write(updated_header + revised)`, one statement of the program that
\* overwrites the file in place
ReviseWrite ==
    /\ epc = "rev_write"
    /\ \E timestamp \in Timestamps :
         files' = Write(files, eargs[1],
                        updated_header(timestamp,
                                       source_name(elocal.loaded, eargs[1]),
                                       eargs[2])
                        \o elocal.result)
    /\ epc' = "done" /\ eexit' = 0 /\ elocal' = NoLocals
    /\ UNCHANGED <<prompts, launched, eparent, eargs, cpc, explanation_path,
                   iteration, previous_critique, clocal, cexit, calls, helperVars,
                   generated, coordinatorVars>>

-----------------------------------------------------------------------------
(* critic.py main                                                          *)

\* whether a text holds the sentinel, position by position: what the backend
\* put into the critique, told without the program's own test
HoldsSentinel(text) ==
    \E i \in 1..Len(text) :
        /\ i + Len(APPROVED_SIGNAL) - 1 <= Len(text)
        /\ \A j \in 1..Len(APPROVED_SIGNAL) : text[i + j - 1] = APPROVED_SIGNAL[j]

\* sys.exit(1) after an [ERROR] line
CriticFails(message) ==
    /\ cpc' = "Fatal" /\ cexit' = 1
    /\ clocal' = [NoLocals EXCEPT !.error = message]

\* main, 240-246: the explanation must exist; load the system prompt
CriticStart ==
    /\ cpc = "c_start"
    /\ LET prompt == load_system_prompt(CRITIC_PROMPT_FILE)
       IN  IF ~Exists(files, explanation_path) THEN CriticFails("not found")
           ELSE IF ~prompt.ok THEN CriticFails(prompt.error)
           ELSE cpc' = "c_for" /\ UNCHANGED <<clocal, cexit>>
    /\ previous_critique' = <<>>
    /\ UNCHANGED <<files, prompts, launched, epc, eparent, eargs, elocal, eexit,
                   explanation_path, iteration, calls, helperVars,
                   generated, coordinatorVars>>

\* a range that runs one iteration too far
RangeStop_late == MAX_ITERATIONS + 2

\* main, 252: range(1, MAX_ITERATIONS + 1), its exclusive end
RangeStop == MAX_ITERATIONS + 1

\* main, 252: the next value of the loop variable
CriticFor ==
    /\ cpc = "c_for" /\ iteration + 1 < RangeStop
    /\ iteration' = iteration + 1
    /\ cpc' = "c_load"
    /\ UNCHANGED <<files, prompts, launched, epc, eparent, eargs, elocal, eexit,
                   explanation_path, previous_critique, clocal, cexit, calls,
                   helperVars,
                   generated, coordinatorVars>>

\* the cap taken for an error
CriticCapped_failing ==
    /\ cpc = "c_for" /\ ~(iteration + 1 < RangeStop)
    /\ cpc' = "Capped" /\ cexit' = 1
    /\ UNCHANGED <<files, prompts, launched, epc, eparent, eargs, elocal, eexit,
                   explanation_path, iteration, previous_critique, clocal, calls,
                   helperVars, generated, coordinatorVars>>

\* main, 290-297: the range is exhausted: the cap is reached, exit 0
CriticCapped ==
    /\ cpc = "c_for" /\ ~(iteration + 1 < RangeStop)
    /\ cpc' = "Capped" /\ cexit' = 0
    /\ UNCHANGED <<files, prompts, launched, epc, eparent, eargs, elocal, eexit,
                   explanation_path, iteration, previous_critique, clocal, calls,
                   helperVars,
                   generated, coordinatorVars>>

\* main, 257: step 1, load the current explanation
CriticLoad ==
    /\ cpc = "c_load"
    /\ LET explanation == load_file(files, explanation_path)
       IN  IF ~explanation.ok THEN CriticFails(explanation.error)
           ELSE /\ cpc' = "c_critique"
                /\ clocal' = [clocal EXCEPT !.loaded = explanation.text]
                /\ UNCHANGED cexit
    /\ UNCHANGED <<files, prompts, launched, epc, eparent, eargs, elocal, eexit,
                   explanation_path, iteration, previous_critique, calls, helperVars,
                   generated, coordinatorVars>>

\* main, 260-266: step 2, generate_critique -> query_ollama
CriticCritique ==
    /\ cpc = "c_critique"
    /\ \E reply \in BackendReplies :
         LET r == critic_query_ollama(reply)
         IN  IF r.ok
             THEN /\ cpc' = "c_verdict"
                  /\ clocal' = [NoLocals EXCEPT !.reply = reply, !.result = r.text]
                  /\ calls' = [calls EXCEPT
                                 !.critique = @ + 1,
                                 !.returned = r.text,
                                 !.sentinel_at =
                                     IF @ = 0 /\ HoldsSentinel(r.text)
                                     THEN calls.critique + 1 ELSE @]
                  /\ UNCHANGED cexit
             ELSE /\ cpc' = "Fatal" /\ cexit' = 1
                  /\ clocal' = [NoLocals EXCEPT !.reply = reply, !.error = r.error]
                  /\ calls' = [calls EXCEPT !.critique = @ + 1]
    /\ UNCHANGED <<files, prompts, launched, epc, eparent, eargs, elocal, eexit,
                   explanation_path, iteration, previous_critique, helperVars,
                   generated, coordinatorVars>>

\* the approval exit without the clean-up
CriticApprove_keeping ==
    /\ cpc = "c_verdict" /\ is_approved(clocal.result)
    /\ cpc' = "Approved" /\ cexit' = 0 /\ clocal' = NoLocals
    /\ UNCHANGED <<files, prompts, launched, epc, eparent, eargs, elocal, eexit,
                   explanation_path, iteration, previous_critique, calls,
                   helperVars,
                   generated, coordinatorVars>>

\* an approval that also marks the explanation
CriticApprove_stamping ==
    /\ cpc = "c_verdict" /\ is_approved(clocal.result)
    /\ files' = Write(IF Exists(files, ACTIVE_CRITIQUE_FILE)
                      THEN Remove(files, ACTIVE_CRITIQUE_FILE) ELSE files,
                      explanation_path,
                      files[explanation_path] \o <<"\n","A","P","P","R","O","V","E","D">>)
    /\ cpc' = "Approved" /\ cexit' = 0 /\ clocal' = NoLocals
    /\ UNCHANGED <<prompts, launched, epc, eparent, eargs, elocal, eexit,
                   explanation_path, iteration, previous_critique, calls,
                   helperVars,
                   generated, coordinatorVars>>

\* main, 269-281: step 3, approved: remove the critique file if any, exit 0
CriticApprove ==
    /\ cpc = "c_verdict" /\ is_approved(clocal.result)
    /\ files' = IF Exists(files, ACTIVE_CRITIQUE_FILE)
                THEN Remove(files, ACTIVE_CRITIQUE_FILE) ELSE files
    /\ cpc' = "Approved" /\ cexit' = 0 /\ clocal' = NoLocals
    /\ UNCHANGED <<prompts, launched, epc, eparent, eargs, elocal, eexit,
                   explanation_path, iteration, previous_critique, calls,
                   helperVars,
                   generated, coordinatorVars>>

\* one critique file per iteration
save_critique_versioned(dir, critique_text, iter, timestamp) ==
    Write(dir, ACTIVE_CRITIQUE_FILE \o ToDecimal(iter),
          critique_header(timestamp, iter) \o critique_text)

\* the iteration counted from zero in the header
save_critique_zero_based(dir, critique_text, iter, timestamp) ==
    Write(dir, ACTIVE_CRITIQUE_FILE,
          critique_header(timestamp, iter - 1) \o critique_text)

\* save_critique: the directory after it (critique_path is ACTIVE_CRITIQUE_FILE
\* in the directory of the explanation)
save_critique(dir, critique_text, iter, timestamp) ==
    Write(dir, ACTIVE_CRITIQUE_FILE,
          critique_header(timestamp, iter) \o critique_text)

\* the critique remembered only when none is remembered yet
CriticSave_first_kept ==
    /\ cpc = "c_verdict" /\ ~is_approved(clocal.result)
    /\ \E timestamp \in Timestamps :
         files' = save_critique(files, clocal.result, iteration, timestamp)
    /\ previous_critique' = IF previous_critique = <<>> THEN clocal.result
                            ELSE previous_critique
    /\ clocal' = NoLocals
    /\ cpc' = "c_revise"
    /\ UNCHANGED <<prompts, launched, epc, eparent, eargs, elocal, eexit,
                   explanation_path, iteration, cexit, calls, helperVars,
                   generated, coordinatorVars>>

\* a critique file already there left as it is
CriticSave_once ==
    /\ cpc = "c_verdict" /\ ~is_approved(clocal.result)
    /\ \E timestamp \in Timestamps :
         files' = IF Exists(files, ACTIVE_CRITIQUE_FILE) THEN files
                  ELSE save_critique(files, clocal.result, iteration, timestamp)
    /\ previous_critique' = clocal.result
    /\ clocal' = NoLocals
    /\ cpc' = "c_revise"
    /\ UNCHANGED <<prompts, launched, epc, eparent, eargs, elocal, eexit,
                   explanation_path, iteration, cexit, calls, helperVars,
                   generated, coordinatorVars>>

\* main, 283-285: step 4, save the critique and remember it
CriticSave ==
    /\ cpc = "c_verdict" /\ ~is_approved(clocal.result)
    /\ \E timestamp \in Timestamps :
         files' = save_critique(files, clocal.result, iteration, timestamp)
    /\ previous_critique' = clocal.result
    /\ clocal' = NoLocals
    /\ cpc' = "c_revise"
    /\ UNCHANGED <<prompts, launched, epc, eparent, eargs, elocal, eexit,
                   explanation_path, iteration, cexit, calls, helperVars,
                   generated, coordinatorVars>>

\* save_critique, 193: open(critique_path, "w") raises OSError (the file or
\* the directory is not writable): a traceback, exit code 1, nothing written
CriticSaveRaises ==
    /\ cpc = "c_verdict" /\ ~is_approved(clocal.result)
    /\ CriticFails("OSError")
    /\ UNCHANGED <<files, prompts, launched, epc, eparent, eargs, elocal, eexit,
                   explanation_path, iteration, previous_critique, calls,
                   helperVars, generated, coordinatorVars>>

\* the first iteration going without its revision
CriticCallRevise_skipping ==
    /\ cpc = "c_revise"
    /\ IF iteration > 1
       THEN /\ epc' = "rev_load" /\ eparent' = "critic"
            /\ eargs' = <<explanation_path, ACTIVE_CRITIQUE_FILE>>
            /\ elocal' = NoLocals /\ eexit' = -1
            /\ calls' = [calls EXCEPT !.revise = @ + 1]
            /\ cpc' = "c_wait"
       ELSE /\ cpc' = "c_for"
            /\ UNCHANGED <<epc, eparent, eargs, elocal, eexit, calls>>
    /\ UNCHANGED <<files, prompts, launched, explanation_path, iteration,
                   previous_critique, clocal, cexit, helperVars,
                   generated, coordinatorVars>>

\* the iteration at the cap going without its revision
CriticCallRevise_sparing_last ==
    /\ cpc = "c_revise"
    /\ IF iteration < MAX_ITERATIONS
       THEN /\ epc' = "rev_load" /\ eparent' = "critic"
            /\ eargs' = <<explanation_path, ACTIVE_CRITIQUE_FILE>>
            /\ elocal' = NoLocals /\ eexit' = -1
            /\ calls' = [calls EXCEPT !.revise = @ + 1]
            /\ cpc' = "c_wait"
       ELSE /\ cpc' = "c_for"
            /\ UNCHANGED <<epc, eparent, eargs, elocal, eexit, calls>>
    /\ UNCHANGED <<files, prompts, launched, explanation_path, iteration,
                   previous_critique, clocal, cexit, helperVars,
                   generated, coordinatorVars>>

\* the revision pointed at a critique file of another name
CriticCallRevise_misnamed ==
    /\ cpc = "c_revise"
    /\ epc' = "rev_load" /\ eparent' = "critic"
    /\ eargs' = <<explanation_path, <<"c","r","i","t","i","q","u","e",".","t","x","t">>>>
    /\ elocal' = NoLocals /\ eexit' = -1
    /\ calls' = [calls EXCEPT !.revise = @ + 1]
    /\ cpc' = "c_wait"
    /\ UNCHANGED <<files, prompts, launched, explanation_path, iteration,
                   previous_critique, clocal, cexit, helperVars,
                   generated, coordinatorVars>>

\* main, 288, call_explainer_revise 205-216: start explainer.py revise
CriticCallRevise ==
    /\ cpc = "c_revise"
    /\ epc' = "rev_load" /\ eparent' = "critic"
    /\ eargs' = <<explanation_path, ACTIVE_CRITIQUE_FILE>>
    /\ elocal' = NoLocals /\ eexit' = -1
    /\ calls' = [calls EXCEPT !.revise = @ + 1]
    /\ cpc' = "c_wait"
    /\ UNCHANGED <<files, prompts, launched, explanation_path, iteration,
                   previous_critique, clocal, cexit, helperVars,
                   generated, coordinatorVars>>

\* the return code of the subprocess not looked at
CriticReap_ignoring ==
    /\ cpc = "c_wait" /\ epc = "done" /\ eparent = "critic"
    /\ cpc' = "c_for" /\ UNCHANGED <<clocal, cexit>>
    /\ epc' = "off" /\ elocal' = NoLocals
    /\ UNCHANGED <<files, prompts, launched, eparent, eargs, eexit,
                   explanation_path, iteration, previous_critique, calls,
                   helperVars, generated, coordinatorVars>>

\* call_explainer_revise 216-220: the subprocess has returned
CriticReap ==
    /\ cpc = "c_wait" /\ epc = "done" /\ eparent = "critic"
    /\ IF eexit # 0
       THEN CriticFails("explainer.py exited")
       ELSE cpc' = "c_for" /\ UNCHANGED <<clocal, cexit>>
    /\ epc' = "off" /\ elocal' = NoLocals
    /\ UNCHANGED <<files, prompts, launched, eparent, eargs, eexit,
                   explanation_path, iteration, previous_critique, calls,
                   helperVars,
                   generated, coordinatorVars>>

-----------------------------------------------------------------------------
(* The pipeline's commands, run from the shell.                            *)

Next ==
    \/ LaunchGenerate \/ LaunchRevise \/ LaunchCritic
    \/ GenerateLoad \/ GenerateQuery \/ GenerateWrite
    \/ ReviseLoad \/ ReviseQuery \/ ReviseWrite
    \/ CriticStart \/ CriticFor \/ CriticCapped \/ CriticLoad \/ CriticCritique
    \/ CriticApprove \/ CriticSave \/ CriticSaveRaises \/ CriticCallRevise
    \/ CriticReap

Spec == Init /\ [][Next]_vars

\* every backend call and every subprocess returns: a running command takes
\* its next step
FairSpec == Spec /\ WF_vars(Next)

-----------------------------------------------------------------------------
(* The helper functions, applied to bounded inputs.                        *)

\* how many fragments a critique text is made of
MaxFragments == 2

\* pieces of critique text: the sentinel, its halves, near misses and remarks
Fragments == {<<"V","E","R","D","I","C","T",":"," ","A","P","P","R","O","V","E","D">>, <<"V","E","R","D","I","C","T",":">>, <<" ","A","P","P","R","O","V","E","D">>,
              <<"v","e","r","d","i","c","t",":"," ","a","p","p","r","o","v","e","d">>, <<"V","E","R","D","I","C","T",":"," "," ","A","P","P","R","O","V","E","D">>, <<"V","E","R","D","I","C","T",":"," ","A","P","P","R","O","V","E">>,
              <<"G","o","o","d","."," ">>, <<"F","i","x"," ","i","t","\n">>}

RECURSIVE TextsOf(_)
TextsOf(n) ==
    IF n = 0 THEN {<<>>}
    ELSE LET shorter == TextsOf(n - 1)
         IN  shorter \cup {t \o f : t \in shorter, f \in Fragments}

CritiqueTexts == TextsOf(MaxFragments)

PipelineOff ==
    /\ files = [f \in {} |-> <<>>] /\ prompts = AllPrompts /\ launched = 0
    /\ ExplainerOff /\ CriticOff
    /\ generated = NoneGenerated /\ CoordinatorOff

InitApproval ==
    /\ PipelineOff
    /\ arg \in CritiqueTexts /\ ret = FALSE /\ called = "no"

ApplyIsApproved ==
    /\ called = "no"
    /\ ret' = is_approved(arg)
    /\ called' = "is_approved"
    /\ UNCHANGED <<arg, pipelineVars>>

SpecApproval == InitApproval /\ [][ApplyIsApproved]_vars

\* how long a topic is
MaxTopicLen == 3

\* letters of either case, a digit, the separators, punctuation, white space
\* and a letter outside ASCII
TopicAlphabet == {"a", "B", "7", " ", "-", "_", "!", "\t", "U+00C9"}

RECURSIVE TopicsOf(_)
TopicsOf(n) ==
    IF n = 0 THEN {<<>>}
    ELSE LET shorter == TopicsOf(n - 1)
         IN  shorter \cup {Append(t, c) : t \in shorter, c \in TopicAlphabet}

Topics == TopicsOf(MaxTopicLen)

InitSlug ==
    /\ PipelineOff
    /\ arg \in Topics /\ ret = <<>> /\ called = "no"

ApplyOrchestratorSlug ==
    /\ called = "no"
    /\ ret' = orchestrator_sanitize_filename(arg)
    /\ called' = "orchestrator"
    /\ UNCHANGED <<arg, pipelineVars>>

ApplyPlannerSlug ==
    /\ called = "no"
    /\ ret' = planner_sanitize_filename(arg)
    /\ called' = "planner"
    /\ UNCHANGED <<arg, pipelineVars>>

NextSlug == ApplyOrchestratorSlug \/ ApplyPlannerSlug

SpecSlug == InitSlug /\ [][NextSlug]_vars

-----------------------------------------------------------------------------
(* orchestrator.py: one run of the whole pipeline for a topic.  The run    *)
(* directory `files` is outputs/<slug>/ of that topic.                     *)

\* planner.py:21
SYSTEM_PROMPT_FILE == <<"s","y","s","t","e","m","_","p","r","o","m","p","t",".","t","x","t">>

\* orchestrator.py:80, planner.py:114
OUTLINE_FILE == <<"o","u","t","l","i","n","e",".","t","x","t">>

\* orchestrator.py:81
EXPLANATION_FILE == <<"e","x","p","l","a","n","a","t","i","o","n",".","t","x","t">>

\* orchestrator.py:113
NOTES_FILE == <<"n","o","t","e","s",".","p","d","f">>

\* how many files another process removes from the run directory during a run
MaxRemovals == 1

\* " ".join(sys.argv[1:]) of the orchestrator: blank, or a topic
RunArguments == {<<" ">>, <<" ","m","l">>}

RunPromptNames == PromptNames \cup {SYSTEM_PROMPT_FILE}

AllRunPrompts == [p \in RunPromptNames |-> PromptText]

\* the prompts directory as installed, with one prompt missing, or with a
\* blank planner prompt
RunPromptDirs ==
    {AllRunPrompts}
    \cup {[p \in RunPromptNames \ {q} |-> PromptText] : q \in RunPromptNames}
    \cup {[AllRunPrompts EXCEPT ![SYSTEM_PROMPT_FILE] = BlankText]}

\* planner.py save_outline: header
outline_header(topic) ==
    <<"L","E","C","T","U","R","E"," ","O","U","T","L","I","N","E","\n">>
    \o Rule \o <<"\n">>
    \o <<"T","o","p","i","c"," "," ",":"," ">> \o topic \o <<"\n">>
    \o <<"M","o","d","e","l"," "," ",":"," ">> \o MODEL_NAME \o <<"\n">>
    \o Rule \o <<"\n","\n">>

\* what the renderer writes (the typesetting itself is reportlab's)
RenderedPdf == <<"%","P","D","F">>

\* outputs/<slug>/ before the run: absent or empty, or as an earlier run of
\* the same topic that was capped left it
RunDirs ==
    {[f \in {} |-> <<>>],
     [f \in {OUTLINE_FILE, EXPLANATION_FILE, ACTIVE_CRITIQUE_FILE, NOTES_FILE} |->
        IF f = OUTLINE_FILE THEN outline_header(<<"m","l">>) \o OutlineText
        ELSE IF f = EXPLANATION_FILE
             THEN generate_header(CHOOSE t \in Timestamps : TRUE, OUTLINE_FILE)
                  \o <<"F","i","x"," ","i","t">>
        ELSE IF f = ACTIVE_CRITIQUE_FILE THEN StaleCritique
        ELSE RenderedPdf]}

InitRun ==
    /\ files \in RunDirs
    /\ prompts \in RunPromptDirs
    /\ launched = 0
    /\ ExplainerOff
    /\ CriticOff
    /\ generated = NoneGenerated
    /\ opc = "o_main" /\ otopic \in RunArguments /\ oexit = -1
    /\ ppc = "off" /\ plocal = NoLocals /\ pexit = -1
    /\ npc = "off" /\ nexit = -1
    /\ invoked = <<>> /\ removals = 0 /\ other = OtherOff
    /\ HelperOff

\* sys.exit(code) of the orchestrator
OrchestratorExits(code) == opc' = "done" /\ oexit' = code

\* run_step, 32: subprocess.run of planner.py <topic>
StartPlanner ==
    /\ ppc' = "p_main" /\ plocal' = NoLocals /\ pexit' = -1
    /\ invoked' = Append(invoked, "planner")

\* run_step, 32: subprocess.run of explainer.py generate <outline_path>
StartExplainer ==
    /\ epc' = "gen_load" /\ eparent' = "orchestrator" /\ eargs' = <<OUTLINE_FILE>>
    /\ elocal' = NoLocals /\ eexit' = -1
    /\ invoked' = Append(invoked, "explainer")

\* run_step, 32: subprocess.run of critic.py <explanation_path>
StartCritic ==
    /\ cpc' = "c_start" /\ explanation_path' = EXPLANATION_FILE
    /\ iteration' = 0 /\ previous_critique' = <<>>
    /\ clocal' = NoLocals /\ cexit' = -1 /\ calls' = NoCalls
    /\ invoked' = Append(invoked, "critic")

\* run_step, 32: subprocess.run of notes_creator.py <explanation_path>
StartNotes ==
    /\ npc' = "n_main" /\ nexit' = -1
    /\ invoked' = Append(invoked, "notes_creator")

\* a run_step that starts the next stage though its subprocess failed
run_step_returns_unchecked(returncode, after) == opc' = after /\ UNCHANGED oexit

\* run_step, 32-35: subprocess.run has returned
run_step_returns(returncode, after) ==
    IF returncode # 0 THEN OrchestratorExits(returncode)
    ELSE opc' = after /\ UNCHANGED oexit

\* main, 55-90: the topic, then step 1 starts the planner
OrchestratorMain ==
    /\ opc = "o_main"
    /\ IF Strip(otopic) = <<>>
       THEN /\ OrchestratorExits(1)
            /\ UNCHANGED <<otopic, ppc, plocal, pexit, invoked>>
       ELSE /\ otopic' = Strip(otopic)
            /\ opc' = "o_planner" /\ UNCHANGED oexit
            /\ StartPlanner
    /\ UNCHANGED <<files, prompts, launched, epc, eparent, eargs, elocal, eexit,
                   cpc, explanation_path, iteration, previous_critique, clocal,
                   cexit, calls, generated, npc, nexit, removals, helperVars, other>>

\* the planner started and not waited for
PlannerReturns_nowait ==
    /\ opc = "o_planner"
    /\ opc' = "o_outline"
    /\ UNCHANGED <<files, prompts, launched, epc, eparent, eargs, elocal, eexit,
                   cpc, explanation_path, iteration, previous_critique, clocal,
                   cexit, calls, generated, otopic, oexit, ppc, plocal, pexit,
                   npc, nexit, invoked, removals, helperVars, other>>

\* run_step of step 1 returns
PlannerReturns ==
    /\ opc = "o_planner" /\ ppc = "done"
    /\ run_step_returns(pexit, "o_outline")
    /\ ppc' = "off"
    /\ UNCHANGED <<files, prompts, launched, epc, eparent, eargs, elocal, eexit,
                   cpc, explanation_path, iteration, previous_critique, clocal,
                   cexit, calls, generated, otopic, plocal, pexit, npc, nexit,
                   invoked, removals, helperVars, other>>

\* main, 91-97: the outline must exist; step 2 starts explainer.py generate
CheckOutline ==
    /\ opc = "o_outline"
    /\ IF ~Exists(files, OUTLINE_FILE)
       THEN /\ OrchestratorExits(1)
            /\ UNCHANGED <<epc, eparent, eargs, elocal, eexit, invoked>>
       ELSE /\ opc' = "o_explainer" /\ UNCHANGED oexit
            /\ StartExplainer
    /\ UNCHANGED <<files, prompts, launched, cpc, explanation_path, iteration,
                   previous_critique, clocal, cexit, calls, generated, otopic,
                   ppc, plocal, pexit, npc, nexit, removals, helperVars, other>>

\* run_step of step 2 returns
ExplainerReturns ==
    /\ opc = "o_explainer" /\ epc = "done" /\ eparent = "orchestrator"
    /\ run_step_returns(eexit, "o_explanation")
    /\ epc' = "off"
    /\ UNCHANGED <<files, prompts, launched, eparent, eargs, elocal, eexit,
                   cpc, explanation_path, iteration, previous_critique, clocal,
                   cexit, calls, generated, otopic, ppc, plocal, pexit, npc,
                   nexit, invoked, removals, helperVars, other>>

\* main, 98-104: the explanation must exist; step 3 starts critic.py
CheckExplanation ==
    /\ opc = "o_explanation"
    /\ IF ~Exists(files, EXPLANATION_FILE)
       THEN /\ OrchestratorExits(1)
            /\ UNCHANGED <<cpc, explanation_path, iteration, previous_critique,
                           clocal, cexit, calls, invoked>>
       ELSE /\ opc' = "o_critic" /\ UNCHANGED oexit
            /\ StartCritic
    /\ UNCHANGED <<files, prompts, launched, epc, eparent, eargs, elocal, eexit,
                   generated, otopic, ppc, plocal, pexit, npc, nexit, removals,
                   helperVars, other>>

\* run_step of step 3 returns
CriticReturns ==
    /\ opc = "o_critic" /\ cpc \in {"Approved", "Capped", "Fatal"}
    /\ run_step_returns(cexit, "o_revised")
    /\ UNCHANGED <<files, prompts, launched, epc, eparent, eargs, elocal, eexit,
                   cpc, explanation_path, iteration, previous_critique, clocal,
                   cexit, calls, generated, otopic, ppc, plocal, pexit, npc,
                   nexit, invoked, removals, helperVars, other>>

\* main, 105-111: the explanation must still exist; step 4 starts
\* notes_creator.py
CheckRevised ==
    /\ opc = "o_revised"
    /\ IF ~Exists(files, EXPLANATION_FILE)
       THEN /\ OrchestratorExits(1)
            /\ UNCHANGED <<npc, nexit, invoked>>
       ELSE /\ opc' = "o_notes" /\ UNCHANGED oexit
            /\ StartNotes
    /\ UNCHANGED <<files, prompts, launched, epc, eparent, eargs, elocal, eexit,
                   cpc, explanation_path, iteration, previous_critique, clocal,
                   cexit, calls, generated, otopic, ppc, plocal, pexit, removals,
                   helperVars, other>>

\* run_step of step 4 returns
NotesReturns ==
    /\ opc = "o_notes" /\ npc = "done"
    /\ run_step_returns(nexit, "o_pdf")
    /\ npc' = "off"
    /\ UNCHANGED <<files, prompts, launched, epc, eparent, eargs, elocal, eexit,
                   cpc, explanation_path, iteration, previous_critique, clocal,
                   cexit, calls, generated, otopic, ppc, plocal, pexit, nexit,
                   invoked, removals, helperVars, other>>

\* main, 113-121: the notes are looked for; a line is printed either way and
\* main returns
CheckNotes ==
    /\ opc = "o_pdf"
    /\ OrchestratorExits(0)
    /\ UNCHANGED <<files, prompts, launched, epc, eparent, eargs, elocal, eexit,
                   cpc, explanation_path, iteration, previous_critique, clocal,
                   cexit, calls, generated, otopic, ppc, plocal, pexit, npc,
                   nexit, invoked, removals, helperVars, other>>

\* between the return of a stage and the look for its output, another
\* process removes one of the run's files
OutsideRemoval ==
    /\ opc \in {"o_outline", "o_explanation", "o_revised", "o_pdf"}
    /\ removals < MaxRemovals
    /\ \E f \in DOMAIN files \cap {OUTLINE_FILE, EXPLANATION_FILE, NOTES_FILE} :
         files' = Remove(files, f)
    /\ removals' = removals + 1
    /\ UNCHANGED <<prompts, launched, epc, eparent, eargs, elocal, eexit,
                   cpc, explanation_path, iteration, previous_critique, clocal,
                   cexit, calls, generated, opc, otopic, oexit, ppc, plocal,
                   pexit, npc, nexit, invoked, helperVars, other>>

-----------------------------------------------------------------------------
(* planner.py                                                              *)

\* sys.exit(1) after an [ERROR] line, or a traceback
PlannerFails(message) ==
    /\ ppc' = "done" /\ pexit' = 1
    /\ plocal' = [NoLocals EXCEPT !.error = message]

\* planner.py load_system_prompt: the stripped content, blank or not
planner_load_system_prompt(filepath) ==
    IF ~Exists(prompts, filepath) THEN Failed("not found")
    ELSE [ok |-> TRUE, text |-> Strip(prompts[filepath]), error |-> "none"]

\* planner.py query_ollama: the text as it came, not stripped, empty or not
planner_query_ollama(reply) ==
    IF reply.unreachable THEN Failed("Could not reach Ollama")
    ELSE IF Uncaught(reply) # "none" THEN Failed(Uncaught(reply))
    ELSE [ok |-> TRUE, text |-> Join(Consume(reply.lines, <<>>)), error |-> "none"]

\* main, 134-150: the topic, the system prompt
PlannerMain ==
    /\ ppc = "p_main"
    /\ LET prompt == planner_load_system_prompt(SYSTEM_PROMPT_FILE)
       IN  IF Strip(otopic) = <<>> THEN PlannerFails("No topic provided")
           ELSE IF ~prompt.ok THEN PlannerFails(prompt.error)
           ELSE /\ ppc' = "p_query"
                /\ plocal' = [plocal EXCEPT !.loaded = prompt.text]
                /\ UNCHANGED pexit
    /\ UNCHANGED <<files, prompts, launched, epc, eparent, eargs, elocal, eexit,
                   cpc, explanation_path, iteration, previous_critique, clocal,
                   cexit, calls, generated, opc, otopic, oexit, npc, nexit,
                   invoked, removals, helperVars, other>>

\* main, 157-161: outline_text = query_ollama(...), which must not be blank
PlannerQuery ==
    /\ ppc = "p_query"
    /\ \E reply \in BackendReplies :
         LET r == planner_query_ollama(reply)
         IN  IF ~r.ok
             THEN /\ ppc' = "done" /\ pexit' = 1
                  /\ plocal' = [NoLocals EXCEPT !.reply = reply, !.error = r.error]
             ELSE IF Strip(r.text) = <<>>
             THEN /\ ppc' = "done" /\ pexit' = 1
                  /\ plocal' = [NoLocals EXCEPT
                                  !.reply = reply,
                                  !.error = "Received empty response from Ollama"]
             ELSE /\ ppc' = "p_save"
                  /\ plocal' = [plocal EXCEPT !.reply = reply, !.result = r.text]
                  /\ UNCHANGED pexit
    /\ UNCHANGED <<files, prompts, launched, epc, eparent, eargs, elocal, eexit,
                   cpc, explanation_path, iteration, previous_critique, clocal,
                   cexit, calls, generated, opc, otopic, oexit, npc, nexit,
                   invoked, removals, helperVars, other>>

\* main, 164, save_outline: makedirs, then the header and the outline written
\* to outline.txt
PlannerSave ==
    /\ ppc = "p_save"
    /\ files' = Write(files, OUTLINE_FILE, outline_header(otopic) \o plocal.result)
    /\ ppc' = "done" /\ pexit' = 0 /\ plocal' = NoLocals
    /\ UNCHANGED <<prompts, launched, epc, eparent, eargs, elocal, eexit,
                   cpc, explanation_path, iteration, previous_critique, clocal,
                   cexit, calls, generated, opc, otopic, oexit, npc, nexit,
                   invoked, removals, helperVars, other>>

-----------------------------------------------------------------------------
(* notes_creator.py                                                        *)

\* derive_output_path
derive_output_path(path) ==
    LET basename == Basename(path)
        suffix   == <<"-","e","x","p","l","a","n","a","t","i","o","n",".","t","x","t">>
    IN  IF basename = EXPLANATION_FILE THEN NOTES_FILE
        ELSE IF EndsWith(basename, suffix)
             THEN SubSeq(basename, 1, Len(basename) - Len(suffix)) \o <<"-","n","o","t","e","s",".","p","d","f">>
        ELSE SplitExtRoot(basename) \o <<"-","n","o","t","e","s",".","p","d","f">>

\* derive_outline_path, inside the directory of the explanation
derive_outline_path(path) ==
    LET basename == Basename(path)
        suffix   == <<"-","e","x","p","l","a","n","a","t","i","o","n",".","t","x","t">>
    IN  IF basename = EXPLANATION_FILE THEN OUTLINE_FILE
        ELSE IF EndsWith(basename, suffix)
             THEN SubSeq(basename, 1, Len(basename) - Len(suffix)) \o <<"-","o","u","t","l","i","n","e",".","t","x","t">>
        ELSE OUTLINE_FILE

\* main, 637-654: the explanation must exist
NotesMain ==
    /\ npc = "n_main"
    /\ IF ~Exists(files, EXPLANATION_FILE)
       THEN npc' = "done" /\ nexit' = 1
       ELSE npc' = "n_render" /\ UNCHANGED nexit
    /\ UNCHANGED <<files, prompts, launched, epc, eparent, eargs, elocal, eexit,
                   cpc, explanation_path, iteration, previous_critique, clocal,
                   cexit, calls, generated, opc, otopic, oexit, ppc, plocal,
                   pexit, invoked, removals, helperVars, other>>

\* main, 656, render_pdf: pdf.build writes the document
NotesRender ==
    /\ npc = "n_render"
    /\ files' = Write(files, derive_output_path(EXPLANATION_FILE), RenderedPdf)
    /\ npc' = "done" /\ nexit' = 0
    /\ UNCHANGED <<prompts, launched, epc, eparent, eargs, elocal, eexit,
                   cpc, explanation_path, iteration, previous_critique, clocal,
                   cexit, calls, generated, opc, otopic, oexit, ppc, plocal,
                   pexit, invoked, removals, helperVars, other>>

\* render_pdf, 565-607: the parser or the typesetter raises (a traceback,
\* exit code 1) before anything is written
NotesRenderRaises ==
    /\ npc = "n_render"
    /\ npc' = "done" /\ nexit' = 1
    /\ UNCHANGED <<files, prompts, launched, epc, eparent, eargs, elocal, eexit,
                   cpc, explanation_path, iteration, previous_critique, clocal,
                   cexit, calls, generated, opc, otopic, oexit, ppc, plocal,
                   pexit, invoked, removals, helperVars, other>>

\* subprocess.run in call_explainer_revise, 216: explainer.py revise is ended
\* by a signal before it has finished (SIGKILL: returncode -9)
ReviseKilled ==
    /\ cpc = "c_wait" /\ eparent = "critic"
    /\ epc \in {"rev_load", "rev_query", "rev_write"}
    /\ epc' = "done" /\ eexit' = -9
    /\ elocal' = [NoLocals EXCEPT !.error = "killed"]
    /\ UNCHANGED <<files, prompts, launched, eparent, eargs, cpc, explanation_path,
                   iteration, previous_critique, clocal, cexit, calls, helperVars,
                   generated, coordinatorVars>>

-----------------------------------------------------------------------------
(* One run of the orchestrator.                                            *)

NextRun ==
    \/ OrchestratorMain \/ PlannerReturns \/ CheckOutline \/ ExplainerReturns
    \/ CheckExplanation \/ CriticReturns \/ CheckRevised \/ NotesReturns
    \/ CheckNotes \/ OutsideRemoval
    \/ PlannerMain \/ PlannerQuery \/ PlannerSave
    \/ GenerateLoad \/ GenerateQuery \/ GenerateWrite
    \/ ReviseLoad \/ ReviseQuery \/ ReviseWrite
    \/ CriticStart \/ CriticFor \/ CriticCapped \/ CriticLoad \/ CriticCritique
    \/ CriticApprove \/ CriticSave \/ CriticSaveRaises \/ CriticCallRevise
    \/ CriticReap \/ ReviseKilled
    \/ NotesMain \/ NotesRender \/ NotesRenderRaises

SpecRun == InitRun /\ [][NextRun]_vars

-----------------------------------------------------------------------------
(* query_ollama, applied to bounded response streams.                      *)

\* how many lines a response stream has
MaxChunks == 3

\* message.content of a chunk: absent or empty, a word, a word in white space
ChunkTokens == {<<>>, <<"F","i","x">>, <<" ","i","t"," ">>}

\* the lines a stream is made of
Chunks ==
    {Obj(token, done) : token \in ChunkTokens, done \in BOOLEAN}
    \cup {BlankLine, Unparseable, NotObject}

RECURSIVE LinesOf(_)
LinesOf(n) ==
    IF n = 0 THEN {<<>>}
    ELSE LET shorter == LinesOf(n - 1)
         IN  shorter \cup {Append(l, c) : l \in shorter, c \in Chunks}

\* what urlopen may bring: no connection, or a stream that ends or stalls
Replies ==
    {ReplyUnreachable, ReplyConnectTimeout}
    \cup {Stream(lines) : lines \in LinesOf(MaxChunks)}
    \cup {Stalled(lines) : lines \in LinesOf(MaxChunks)}

InitAdapter ==
    /\ PipelineOff
    /\ arg \in Replies /\ ret = Failed("not called") /\ called = "no"

ApplyCriticQuery ==
    /\ called = "no"
    /\ ret' = critic_query_ollama(arg)
    /\ called' = "critic"
    /\ UNCHANGED <<arg, pipelineVars>>

ApplyExplainerQuery ==
    /\ called = "no"
    /\ ret' = explainer_query_ollama(arg)
    /\ called' = "explainer"
    /\ UNCHANGED <<arg, pipelineVars>>

NextAdapter == ApplyCriticQuery \/ ApplyExplainerQuery

SpecAdapter == InitAdapter /\ [][NextAdapter]_vars

-----------------------------------------------------------------------------
(* Two critic.py runs on the same explanation at the same time.  The first *)
(* is the critic and its explainer.py above; the second is critic.py main  *)
(* and module_revise once more, its steps taken from one access to the     *)
(* directory to the next.                                                  *)

firstRunVars == <<prompts, launched, epc, eparent, eargs, elocal, eexit, cpc,
                  explanation_path, iteration, previous_critique, clocal, cexit,
                  calls, generated, opc, otopic, oexit, ppc, plocal, pexit, npc,
                  nexit, invoked, removals, helperVars>>

\* how many iterations of the second run fall into the time of the first
MaxOtherIterations == 1

\* the directory after `explainer.py generate outline.txt`
PairDir ==
    [f \in {OUTLINE_FILE, EXPLANATION_FILE} |->
        IF f = OUTLINE_FILE THEN outline_header(<<"m","l">>) \o OutlineText
        ELSE generate_header(CHOOSE t \in Timestamps : TRUE, OUTLINE_FILE)
             \o <<"F","i","x"," ","i","t">>]

InitPair ==
    /\ files = PairDir
    /\ prompts = AllPrompts
    /\ launched = 0
    /\ ExplainerOff
    /\ cpc = "c_start" /\ explanation_path = EXPLANATION_FILE /\ iteration = 0
    /\ previous_critique = <<>> /\ clocal = NoLocals /\ cexit = -1
    /\ calls = NoCalls
    /\ generated = NoneGenerated
    /\ opc = "off" /\ otopic = <<>> /\ oexit = -1
    /\ ppc = "off" /\ plocal = NoLocals /\ pexit = -1
    /\ npc = "off" /\ nexit = -1
    /\ invoked = <<>> /\ removals = 0
    /\ other = [OtherOff EXCEPT !.pc = "for"]
    /\ HelperOff

\* sys.exit(1) of the second run, or of its explainer.py seen by it
OtherFails == other' = [other EXCEPT !.pc = "Fatal", !.exit = 1]

\* main, 252-266: the next iteration, its load_file and its critique; 290-297
\* when the range is exhausted
OtherReview ==
    /\ other.pc = "for"
    /\ other.iteration < MaxOtherIterations
    /\ IF ~(other.iteration + 1 < RangeStop)
       THEN other' = [other EXCEPT !.pc = "Capped", !.exit = 0]
       ELSE IF ~load_file(files, EXPLANATION_FILE).ok THEN OtherFails
       ELSE \E reply \in BackendReplies :
              LET r == critic_query_ollama(reply)
              IN  IF ~r.ok THEN OtherFails
                  ELSE other' = [other EXCEPT !.pc = "verdict",
                                              !.iteration = @ + 1,
                                              !.critique = r.text]
    /\ UNCHANGED <<files, firstRunVars>>

\* main, 269-281: approved: remove the critique file if any, exit 0
OtherApprove ==
    /\ other.pc = "verdict" /\ is_approved(other.critique)
    /\ files' = IF Exists(files, ACTIVE_CRITIQUE_FILE)
                THEN Remove(files, ACTIVE_CRITIQUE_FILE) ELSE files
    /\ other' = [other EXCEPT !.pc = "Approved", !.exit = 0]
    /\ UNCHANGED firstRunVars

\* main, 283-285: save_critique
OtherSave ==
    /\ other.pc = "verdict" /\ ~is_approved(other.critique)
    /\ \E timestamp \in Timestamps :
         /\ files' = save_critique(files, other.critique, other.iteration, timestamp)
         /\ other' = [other EXCEPT
                        !.pc = "revise",
                        !.saved = critique_header(timestamp, other.iteration)
                                  \o other.critique]
    /\ UNCHANGED firstRunVars

\* main, 288, module_revise 209-229: the three loads and the backend call of
\* the second run's explainer.py revise
OtherReviseLoad ==
    /\ other.pc = "revise"
    /\ LET explanation == load_file(files, EXPLANATION_FILE)
           critique    == load_file(files, ACTIVE_CRITIQUE_FILE)
           prompt      == load_system_prompt(REVISER_PROMPT_FILE)
       IN  IF ~explanation.ok \/ ~critique.ok \/ ~prompt.ok THEN OtherFails
           ELSE \E reply \in BackendReplies :
                  LET r == explainer_query_ollama(reply)
                  IN  IF ~r.ok THEN OtherFails
                      ELSE other' = [other EXCEPT !.pc = "rev_write",
                                                  !.loaded = explanation.text,
                                                  !.result = r.text]
    /\ UNCHANGED <<files, firstRunVars>>

\* module_revise 231-254: the explanation written back; the second run goes
\* on with its loop
OtherReviseWrite ==
    /\ other.pc = "rev_write"
    /\ \E timestamp \in Timestamps :
         files' = Write(files, EXPLANATION_FILE,
                        updated_header(timestamp,
                                       source_name(other.loaded, EXPLANATION_FILE),
                                       ACTIVE_CRITIQUE_FILE)
                        \o other.result)
    /\ other' = [other EXCEPT !.pc = "for", !.loaded = <<>>, !.result = <<>>]
    /\ UNCHANGED firstRunVars

NextPair ==
    \/ CriticStart \/ CriticFor \/ CriticCapped \/ CriticLoad \/ CriticCritique
    \/ CriticApprove \/ CriticSave \/ CriticSaveRaises \/ CriticCallRevise
    \/ CriticReap
    \/ ReviseLoad \/ ReviseQuery \/ ReviseWrite
    \/ OtherReview \/ OtherApprove \/ OtherSave \/ OtherReviseLoad
    \/ OtherReviseWrite

SpecPair == InitPair /\ [][NextPair]_vars

-----------------------------------------------------------------------------
(* One critic.py run over an explanation just generated, the critiques of  *)
(* its iterations differing.                                                *)

InitReview ==
    /\ files \in {PairDir, Write(PairDir, ACTIVE_CRITIQUE_FILE, StaleCritique)}
    /\ prompts = AllPrompts
    /\ launched = 0
    /\ ExplainerOff
    /\ cpc = "c_start" /\ explanation_path = EXPLANATION_FILE /\ iteration = 0
    /\ previous_critique = <<>> /\ clocal = NoLocals /\ cexit = -1
    /\ calls = NoCalls
    /\ generated = NoneGenerated
    /\ CoordinatorOff
    /\ HelperOff

\* main, 260-266, the backend answering from CritiqueReplies
CriticCritiqueReview ==
    /\ cpc = "c_critique"
    /\ \E reply \in CritiqueReplies :
         LET r == critic_query_ollama(reply)
         IN  IF r.ok
             THEN /\ cpc' = "c_verdict"
                  /\ clocal' = [NoLocals EXCEPT !.reply = reply, !.result = r.text]
                  /\ calls' = [calls EXCEPT
                                 !.critique = @ + 1,
                                 !.returned = r.text,
                                 !.sentinel_at =
                                     IF @ = 0 /\ HoldsSentinel(r.text)
                                     THEN calls.critique + 1 ELSE @]
                  /\ UNCHANGED cexit
             ELSE /\ cpc' = "Fatal" /\ cexit' = 1
                  /\ clocal' = [NoLocals EXCEPT !.reply = reply, !.error = r.error]
                  /\ calls' = [calls EXCEPT !.critique = @ + 1]
    /\ UNCHANGED <<files, prompts, launched, epc, eparent, eargs, elocal, eexit,
                   explanation_path, iteration, previous_critique, helperVars,
                   generated, coordinatorVars>>

NextReview ==
    \/ CriticStart \/ CriticFor \/ CriticCapped \/ CriticLoad
    \/ CriticCritiqueReview
    \/ CriticApprove \/ CriticSave \/ CriticSaveRaises \/ CriticCallRevise
    \/ CriticReap
    \/ ReviseLoad \/ ReviseQuery \/ ReviseWrite

SpecReview == InitReview /\ [][NextReview]_vars

-----------------------------------------------------------------------------
(* From an outline to its explanation (explainer.py) and back               *)
(* (notes_creator.py), applied to outline file names.                       *)

\* outline file names: the two conventions, outline.txt and X-outline.txt, and
\* names of other endings
OutlinePaths ==
    {stem \o ending :
        stem \in {<<>>, <<"a">>, <<"m","l">>, <<"a","-","b">>, <<"x",".","y">>, <<"o","u","t","l","i","n","e">>, <<"-">>,
                  <<"m","l","-","o","u","t","l","i","n","e">>, <<" ","o">>, <<"D","e","e","p"," ","L","e","a","r","n","i","n","g">>},
        ending \in {<<"o","u","t","l","i","n","e",".","t","x","t">>, <<"-","o","u","t","l","i","n","e",".","t","x","t">>, <<".","t","x","t">>, <<".","m","d">>,
                    <<"-","o","u","t","l","i","n","e",".","m","d">>, <<"-","e","x","p","l","a","n","a","t","i","o","n",".","t","x","t">>}}

InitPaths ==
    /\ PipelineOff
    /\ arg \in OutlinePaths /\ ret = <<>> /\ called = "no"

ApplyRoundTrip ==
    /\ called = "no"
    /\ ret' = derive_outline_path(derive_explanation_path(arg))
    /\ called' = "derive_outline_path"
    /\ UNCHANGED <<arg, pipelineVars>>

SpecPaths == InitPaths /\ [][ApplyRoundTrip]_vars

-----------------------------------------------------------------------------
(* Properties of the iteration controller (critic.py main).                *)

\* the files of the run directory that are critique artifacts, by content
CritiqueArtifacts ==
    {f \in DOMAIN files : StartsWith(files[f], <<"A","C","T","I","V","E"," ","C","R","I","T","I","Q","U","E">>)}

\* C1: whenever the controller has terminated Approved, at whatever iteration
\* and whatever critique file was there before or was saved on the way, the
\* explanation's directory holds no active_critique.txt.
C1_ApprovedLeavesNoCritique ==
    cpc = "Approved" =>
        /\ ~Exists(files, ACTIVE_CRITIQUE_FILE)
        /\ CritiqueArtifacts = {}

\* approved after earlier iterations had saved a critique
C1_Witness ==
    cpc = "Approved" /\ iteration = MAX_ITERATIONS /\ calls.revise = MAX_ITERATIONS - 1

\* C2: whenever the controller has terminated Capped, exactly one critique
\* artifact exists in the run directory and the iteration number in its
\* header is the cap.
C2_CappedKeepsLastCritique ==
    cpc = "Capped" =>
        /\ CritiqueArtifacts = {ACTIVE_CRITIQUE_FILE}
        /\ Cardinality(CritiqueArtifacts) = 1
        /\ SplitLines(files[ACTIVE_CRITIQUE_FILE])[1]
             = <<"A","C","T","I","V","E"," ","C","R","I","T","I","Q","U","E"," ","U+2014"," ","I","t","e","r","a","t","i","o","n"," ">> \o ToDecimal(MAX_ITERATIONS)

C2_Witness ==
    cpc = "Capped" /\ calls.critique = MAX_ITERATIONS

\* C3: if the first critique holding the sentinel is the one returned by
\* critique call k, the controller goes straight to Approved, with exactly k
\* critique calls and k-1 revision calls made; approval at iteration 1 means
\* one critique call and no revision call.
C3_ApprovalAtFirstSentinel ==
    /\ calls.sentinel_at > 0 =>
          /\ cpc \in {"c_verdict", "Approved"}
          /\ calls.critique = calls.sentinel_at
          /\ calls.revise = calls.sentinel_at - 1
    /\ cpc = "Approved" =>
          /\ calls.sentinel_at = iteration
          /\ iteration \in 1..MAX_ITERATIONS

\* approved at iteration 3: three critique calls, two revisions
C3_Witness ==
    cpc = "Approved" /\ calls.critique = 3 /\ calls.revise = 2

\* C4: a run in which no critique holds the sentinel and nothing fails ends
\* Capped, after exactly N critique calls and N-1 or N revision calls, no
\* iteration before the last going without its revision, and with the critique
\* and the explanation both on disk.
C4_CappedAfterNCritiques ==
    /\ cpc = "Capped" =>
          /\ calls.sentinel_at = 0
          /\ calls.critique = MAX_ITERATIONS
          /\ calls.revise \in {MAX_ITERATIONS - 1, MAX_ITERATIONS}
          /\ Exists(files, ACTIVE_CRITIQUE_FILE)
          /\ Exists(files, explanation_path)
    \* an iteration is reached only with every earlier one revised
    /\ cpc \in {"c_load", "c_critique", "c_verdict", "c_revise", "c_wait"} =>
          calls.revise >= iteration - 1
    \* the other two ends need a failure or the sentinel
    /\ cpc = "Fatal" => clocal.error # "none"
    /\ cpc = "Approved" => calls.sentinel_at > 0

C4_Witness ==
    cpc = "Capped" /\ calls.critique = MAX_ITERATIONS /\ calls.sentinel_at = 0
    /\ Exists(files, ACTIVE_CRITIQUE_FILE) /\ Exists(files, explanation_path)

\* C5: when every backend call and every revision subprocess returns, a
\* started controller terminates, Approved or Capped (exit 0) or in a fatal
\* abort (exit 1), after at most MAX_ITERATIONS critique calls; inside the
\* loop the iteration counter is within 1..MAX_ITERATIONS.
C5_ControllerTerminates ==
    /\ [](/\ iteration \in 0..MAX_ITERATIONS
          /\ cpc \in {"c_load", "c_critique", "c_verdict", "c_revise", "c_wait"}
                => iteration \in 1..MAX_ITERATIONS
          /\ calls.critique <= MAX_ITERATIONS
          /\ cpc \in {"Approved", "Capped"} => cexit = 0
          /\ cpc = "Fatal" => cexit = 1)
    /\ [](cpc = "c_start" => <>(cpc \in {"Approved", "Capped", "Fatal"}))

C5_Witness ==
    cpc = "Capped" /\ iteration = MAX_ITERATIONS /\ cexit = 0

-----------------------------------------------------------------------------
(* Properties of the helper functions.                                     *)

\* C6: is_approved(critique) is true exactly when "VERDICT: APPROVED" occurs
\* in the critique as a contiguous, case-sensitive substring; "VERDICT:"
\* alone, or the sentinel in another case, is not approved.
C6_ApprovedIffSentinel ==
    called = "is_approved" =>
        /\ ret <=> HoldsSentinel(arg)
        /\ arg \in {<<"V","E","R","D","I","C","T",":">>, <<" ","A","P","P","R","O","V","E","D">>, <<"v","e","r","d","i","c","t",":"," ","a","p","p","r","o","v","e","d">>,
                    <<"V","E","R","D","I","C","T",":"," "," ","A","P","P","R","O","V","E","D">>, <<"V","E","R","D","I","C","T",":"," ","A","P","P","R","O","V","E","D">>}
              => (ret <=> arg = <<"V","E","R","D","I","C","T",":"," ","A","P","P","R","O","V","E","D">>)

\* approved with the sentinel after other text
C6_Witness ==
    called = "is_approved" /\ ret = TRUE /\ arg = <<"F","i","x"," ","i","t","\n","V","E","R","D","I","C","T",":"," ","A","P","P","R","O","V","E","D">>

\* C7: for every topic, sanitize_filename(topic) is non-empty and made only
\* of characters in [a-z0-9_-]; a topic with no alphanumeric, hyphen or
\* underscore character yields "lecture".
C7_SlugCharset ==
    called \in {"orchestrator", "planner"} =>
        /\ ret # <<>>
        /\ \A i \in 1..Len(ret) : ret[i] \in LowerAscii \cup DigitAscii \cup {"_", "-"}
        /\ (\A i \in 1..Len(arg) : ~IsAlnum(arg[i]) /\ arg[i] \notin {"-", "_"})
              => ret = <<"l","e","c","t","u","r","e">>

-----------------------------------------------------------------------------
(* Properties of the revision stage (explainer.py module_revise).          *)

\* the value of the Source field of an explanation file, as written after
\* "Source    : " in its header
SourceField(content) ==
    LET line == FirstSourceLine(SplitLines(content))
    IN  SubSeq(line, Len(<<"S","o","u","r","c","e"," "," "," "," ",":"," ">>) + 1, Len(line))

\* C8: through any number of revisions, the Source field of an explanation
\* made by module_generate stays the name of the outline it was made from.
C8_SourceIsOutlineName ==
    \A o \in OutlineNames :
        Exists(files, derive_explanation_path(o)) =>
            SourceField(files[derive_explanation_path(o)]) = o

\* an explanation file is whole: the title, a header closed by the rule and a
\* blank line, and a body that is not blank
WholeExplanation(content) ==
    /\ StartsWith(content, <<"L","E","C","T","U","R","E"," ","E","X","P","L","A","N","A","T","I","O","N","\n">> \o Rule \o <<"\n">>)
    /\ \E i \in 1..(Len(content) - RULE_WIDTH - 2) :
          /\ SubSeq(content, i, i + RULE_WIDTH + 2) = <<"\n">> \o Rule \o <<"\n","\n">>
          /\ Strip(SubSeq(content, i + RULE_WIDTH + 3, Len(content))) # <<>>

\* a step of a revise run: only its successful last step changes the
\* directory, and that step puts the header and the whole revised text in
\* place of the explanation
ReviseStepWritesWholeOrNothing ==
    (epc \in {"rev_load", "rev_query", "rev_write"}) =>
        IF epc' = "done" /\ eexit' = 0
        THEN /\ epc = "rev_write"
             /\ Strip(elocal.result) # <<>>
             /\ DOMAIN files' = DOMAIN files
             /\ \A f \in DOMAIN files \ {eargs[1]} : files'[f] = files[f]
             /\ EndsWith(files'[eargs[1]], Rule \o <<"\n","\n">> \o elocal.result)
             /\ WholeExplanation(files'[eargs[1]])
        ELSE files' = files

\* C9: module_revise replaces the explanation only once the full, non-empty
\* revised text is there: every step of a revise run but its successful last
\* one leaves the directory as it is, the last one writes the header followed
\* by the whole revised text, and no state holds a partly written explanation.
C9_ReviseReplacesOnlyWhenComplete ==
    /\ [](\A e \in ExplanationNames :
             Exists(files, e) => WholeExplanation(files[e]))
    /\ [][ReviseStepWritesWholeOrNothing]_vars

\* a revise run that failed on an empty backend response, the explanation
\* still there
C9_Witness ==
    /\ epc = "done" /\ eexit = 1 /\ Len(eargs) = 2
    /\ elocal.error = "Received an empty response from Ollama"
    /\ Exists(files, eargs[1])

-----------------------------------------------------------------------------
(* Failure of a stage.                                                     *)

\* the replies whose assembled text is empty or white space only
BlankReplies == {ReplyBlank, ReplyEmpty}

\* a step in which a stage gets such a reply, or loads its inputs
BlankReplyStopsStage ==
    /\ (epc \in {"gen_query", "rev_query"} /\ elocal'.reply \in BlankReplies)
          => (epc' = "done" /\ eexit' > 0 /\ files' = files)
    /\ (cpc = "c_critique" /\ clocal'.reply \in BlankReplies)
          => (cpc' = "Fatal" /\ cexit' > 0 /\ files' = files)
    /\ (epc \in {"gen_load", "rev_load"} \/ cpc = "c_load")
          => files' = files

\* C10: when the backend's text is empty or white space only, the stage that
\* asked (generate, a critique of any iteration, revise) ends at once with a
\* non-zero exit code and the directory is left as it is; nothing was written
\* earlier in that stage either.
C10_EmptyResponseIsFatal == [][BlankReplyStopsStage]_vars

\* a critique call of a later iteration that got white space only
C10_Witness ==
    cpc = "Fatal" /\ clocal.reply = ReplyBlank /\ iteration = 2

\* the critic run has been aborted
Aborted == cpc = "Fatal" /\ cexit # 0

\* each iteration asks for at most one critique and at most one revision
NoRetry ==
    cpc # "off" => (calls.critique <= iteration /\ calls.revise <= calls.critique)

\* a step of a critic run in which the critique call, the save of the critique
\* or the revision fails, and a step after the abort
FailureAbortsAtOnce ==
    /\ (cpc = "c_critique" /\ ~critic_query_ollama(clocal'.reply).ok)
          => (Aborted' /\ files' = files /\ iteration' = iteration
              /\ calls'.critique = calls.critique + 1
              /\ calls'.revise = calls.revise)
    /\ (cpc = "c_verdict" /\ cpc' \notin {"Approved", "c_revise"})
          => (Aborted' /\ files' = files /\ iteration' = iteration
              /\ calls' = calls)
    /\ (cpc = "c_wait" /\ epc = "done" /\ eexit # 0)
          => (Aborted' /\ files' = files /\ iteration' = iteration
              /\ calls' = calls)
    /\ (cpc = "c_wait" /\ epc' = "done" /\ eexit' # 0)
          => (files' = files /\ cpc' = cpc /\ calls' = calls)
    /\ (Aborted /\ launched' = launched)
          => UNCHANGED <<files, calls, iteration, cpc, cexit, epc>>

StageOrder == <<"planner", "explainer", "critic", "notes_creator">>

\* the orchestrator has exited 0 and every stage has done its work: the
\* planner and the renderer exited 0, module_generate wrote the explanation,
\* the critic ended approved or capped
EveryStageCompleted ==
    /\ invoked = StageOrder
    /\ pexit = 0
    /\ generated[EXPLANATION_FILE] # <<>>
    /\ cpc \in {"Approved", "Capped"} /\ cexit = 0
    /\ nexit = 0

\* a step in which run_step finds that its subprocess has failed
FailedStageEndsRun ==
    /\ (opc = "o_planner" /\ ppc = "done" /\ pexit # 0)
          => (opc' = "done" /\ oexit' = pexit /\ invoked' = invoked)
    /\ (opc = "o_explainer" /\ epc = "done" /\ eexit # 0)
          => (opc' = "done" /\ oexit' = eexit /\ invoked' = invoked)
    /\ (opc = "o_critic" /\ CriticStopped /\ cexit # 0)
          => (opc' = "done" /\ oexit' = cexit /\ invoked' = invoked)
    /\ (opc = "o_notes" /\ npc = "done" /\ nexit # 0)
          => (opc' = "done" /\ oexit' = nexit /\ invoked' = invoked)
    /\ opc = "done" => UNCHANGED <<invoked, oexit, ppc, epc, cpc, npc>>

\* C12: the orchestrator exits 0 only when every stage has completed; when
\* a stage's process exits non-zero the orchestrator exits in its next step
\* with that exit code, and no further stage is started.
C12_FirstFailureEndsRun ==
    /\ []((opc = "done" /\ oexit = 0) => EveryStageCompleted)
    /\ [][FailedStageEndsRun]_vars

\* the critic failed: the orchestrator has exited with its code and the
\* renderer was never started
C12_Witness ==
    /\ opc = "done" /\ oexit = cexit /\ cpc = "Fatal"
    /\ invoked = <<"planner", "explainer", "critic">> /\ npc = "off"

\* C13: after each of the four stages the orchestrator looks for the stage's
\* output and, when it is absent, exits non-zero without starting a later
\* stage: a later stage runs only on an outline / explanation that was
\* there, and the run ends with exit code 0 only with the notes there.
C13_OutputCheckedAfterEveryStage ==
    /\ opc = "o_explainer" => Exists(files, OUTLINE_FILE)
    /\ opc = "o_critic" => Exists(files, EXPLANATION_FILE)
    /\ opc = "o_notes" => Exists(files, EXPLANATION_FILE)
    /\ (opc = "done" /\ oexit = 0) => Exists(files, NOTES_FILE)

\* the stages whose process is running
ActiveStages ==
    {s \in {"planner", "explainer", "critic", "notes_creator"} :
        \/ s = "planner" /\ ppc \notin {"off", "done"}
        \/ s = "explainer" /\ eparent = "orchestrator" /\ ~ExplainerStopped
        \/ s = "critic" /\ ~CriticStopped
        \/ s = "notes_creator" /\ npc \notin {"off", "done"}}

\* a step that starts a stage
StageStartsAlone ==
    invoked' # invoked =>
        /\ ActiveStages = {}
        /\ Len(invoked') = Len(invoked) + 1
        /\ ActiveStages' = {invoked'[Len(invoked')]}

\* C14: the stages are started in the order planner, explainer (generate),
\* critic, notes_creator, each at most once; a stage is started only when
\* no stage is running, and no two stages run at the same time.
C14_StagesStrictlySequential ==
    /\ [](/\ Len(invoked) <= Len(StageOrder)
           /\ invoked = SubSeq(StageOrder, 1, Len(invoked))
           /\ Cardinality(ActiveStages) <= 1)
    /\ [][StageStartsAlone]_vars

\* the last stage runs, after the three before it
C14_Witness == invoked = StageOrder /\ ActiveStages = {"notes_creator"}

\* C15: the critic's exit code is 0 exactly when it has ended Approved or
\* Capped; every other end (explanation or prompt missing or blank, a backend
\* failure, a failed save or revision) is the fatal one, with an error
\* reported and a non-zero exit code; no exit code is set before the end.
C15_ExitZeroIffApprovedOrCapped ==
    /\ cexit = 0 <=> cpc \in {"Approved", "Capped"}
    /\ cexit \notin {0, -1} <=> cpc = "Fatal"
    /\ cpc = "Fatal" <=> (cpc # "off" /\ clocal.error # "none")

\* the critic was started on an explanation that is not there
C15_Witness == cpc = "Fatal" /\ cexit = 1 /\ clocal.error = "not found"

\* the files of the run directory that are explanation artifacts, by content
ExplanationArtifacts ==
    {f \in DOMAIN files : StartsWith(files[f], <<"L","E","C","T","U","R","E"," ","E","X","P","L","A","N","A","T","I","O","N","\n">>)}

\* the last command was a `generate` that wrote to e, not for the first time
GeneratedAgain(e) ==
    /\ epc = "done" /\ eexit = 0 /\ Len(eargs) = 1
    /\ derive_explanation_path(eargs[1]) = e
    /\ Len(generated[e]) >= 2

\* C16: after module_generate has run to its end a second (or later) time
\* for an outline, the directory holds one explanation file, at the derived
\* path, and that file is a fresh header followed by the backend's response
\* to the last call and nothing else.
C16_GenerateTwiceKeepsLast ==
    \A e \in ExplanationNames :
        GeneratedAgain(e) =>
            /\ ExplanationArtifacts = {e}
            /\ \E timestamp \in Timestamps :
                   files[e] = generate_header(timestamp, eargs[1])
                              \o generated[e][Len(generated[e])]

\* generated twice, with two different responses
C16_Witness ==
    \E e \in ExplanationNames :
        /\ GeneratedAgain(e)
        /\ generated[e][1] # generated[e][2]

\* the paths whose content a step changes, creates or removes
Touched ==
    {f \in DOMAIN files \cup DOMAIN files' :
        \/ f \notin DOMAIN files \/ f \notin DOMAIN files'
        \/ files'[f] # files[f]}

\* a step of the critic or of its revision that touches the directory
CriticWritesFixedPaths ==
    (opc = "o_critic" /\ Touched # {}) =>
        Touched \subseteq {ACTIVE_CRITIQUE_FILE, EXPLANATION_FILE}

\* C17: in every state of a run the directory holds at most one critique
\* artifact and at most one explanation artifact, at active_critique.txt and
\* explanation.txt; every step of the critic stage that writes or removes a
\* file (save_critique, the revision, the clean-up) does so at one of these
\* two paths.
C17_SingleSlotArtifacts ==
    /\ [](/\ CritiqueArtifacts \subseteq {ACTIVE_CRITIQUE_FILE}
           /\ ExplanationArtifacts \subseteq {EXPLANATION_FILE}
           /\ Cardinality(CritiqueArtifacts) <= 1
           /\ Cardinality(ExplanationArtifacts) <= 1)
    /\ [][CriticWritesFixedPaths]_vars

\* the second iteration's critique saved over the first, the explanation
\* revised once
C17_Witness ==
    /\ opc = "o_critic" /\ cpc = "c_revise" /\ iteration = 2
    /\ CritiqueArtifacts = {ACTIVE_CRITIQUE_FILE}
    /\ ExplanationArtifacts = {EXPLANATION_FILE}

\* the position of the first chunk with the completion flag set, the last
\* position of the stream when there is none
FirstDone(lines) ==
    LET flagged == {k \in 1..Len(lines) : lines[k].kind = "object" /\ lines[k].done}
    IN  IF flagged = {} THEN Len(lines) ELSE Min(flagged)

\* the message.content fragments of the chunks up to that position, in
\* arrival order, put together
ArrivedText(lines) ==
    Join([k \in 1..FirstDone(lines) |->
            IF lines[k].kind = "object" THEN lines[k].token ELSE <<>>])

\* C18, as claimed: whenever query_ollama returns, its result is the
\* concatenation, in arrival order, of the message.content fragments of the
\* chunks up to and including the first one with the completion flag set
\* (up to the end of the stream when there is none).
C18_ResultIsConcatenation ==
    (called # "no" /\ ret.ok) => ret.text = ArrivedText(arg.lines)

\* C18, amended: whenever query_ollama returns, its result is that
\* concatenation with the white space at both ends removed, and is not
\* empty; no fragment after the first completed chunk is part of it.
C18_ResultIsStrippedConcatenation ==
    (called # "no" /\ ret.ok) =>
        /\ ret.text = Strip(ArrivedText(arg.lines))
        /\ ret.text # <<>>

\* a stream that goes on after its first completed chunk, with white space
\* around the text
C18_Witness ==
    /\ called = "critic" /\ ret.ok
    /\ arg.lines = <<Obj(<<"F","i","x">>, FALSE), Obj(<<" ","i","t"," ">>, TRUE), Obj(<<"F","i","x">>, TRUE)>>

\* the reply without its lines that are not JSON or not of a chunk's shape
WithoutMalformed(reply) ==
    [reply EXCEPT !.lines =
        SelectSeq(@, LAMBDA c : c.kind \notin {"unparseable", "not_object"})]

\* C19: a malformed line of the stream is skipped and never fatal: the
\* outcome of query_ollama is its outcome on the same stream with the
\* malformed lines taken out.
C19_MalformedChunksSkipped ==
    called # "no" =>
        ret = (IF called = "critic"
               THEN critic_query_ollama(WithoutMalformed(arg))
               ELSE explainer_query_ollama(WithoutMalformed(arg)))

\* the timeout of urlopen expired, while connecting or while a line was
\* awaited
TimedOut(reply) ==
    \/ reply.timeout = "connect"
    \/ reply.timeout = "read" /\ LoopEnd(reply.lines) = "end"

\* C20: a backend call that runs into the timeout, while connecting or while
\* reading the stream, ends the stage as an unreachable backend does: with a
\* non-zero exit code and the "Could not reach Ollama" error and hints.
C20_TimeoutIsBackendUnreachable ==
    /\ (epc = "done" /\ TimedOut(elocal.reply))
          => (eexit # 0 /\ elocal.error = "Could not reach Ollama")
    /\ (CriticStopped /\ TimedOut(clocal.reply))
          => (cexit # 0 /\ clocal.error = "Could not reach Ollama")

\* the first run has ended Approved and a critique artifact is there
ApprovedBesideCritique ==
    cpc = "Approved" /\ Exists(files, ACTIVE_CRITIQUE_FILE)

\* the revision of the first run has found a file missing
RevisionFoundFileMissing ==
    /\ cpc = "c_wait" /\ eparent = "critic" /\ epc = "done"
    /\ elocal.error = "not found"

\* C21: with a second critic run on the same explanation, the guarantees of
\* a run break, and only through the other run's access to the two
\* single-slot files: a run ends Approved beside a critique artifact exactly
\* when that artifact is the one the other run saved last, and its revision
\* finds the critique it has just saved missing only when the other run has
\* ended Approved (and removed it); there is still no second critique file.
C21_ConcurrentRunsInterfere ==
    /\ ApprovedBesideCritique =>
          (other.saved # <<>> /\ files[ACTIVE_CRITIQUE_FILE] = other.saved)
    /\ RevisionFoundFileMissing =>
          (other.pc = "Approved" /\ ~Exists(files, ACTIVE_CRITIQUE_FILE))
    /\ CritiqueArtifacts \subseteq {ACTIVE_CRITIQUE_FILE}

\* the first run has ended Approved while the critique the other run wrote
\* is in the directory
C21_Witness == ApprovedBesideCritique /\ other.pc # "off"


\* C22: every iteration whose critique is not an approval starts the revision,
\* the iteration at the cap included: a critique found wanting is followed by
\* the revision call unless saving it fails; the loop comes round with as many
\* revisions as iterations; a Capped run has made MAX_ITERATIONS critique calls
\* and MAX_ITERATIONS revisions; and each critique call finds one revision less
\* than critique calls, so that no critique call follows the last revision.
RevisionFollowsCritique ==
    /\ (cpc = "c_verdict" /\ ~is_approved(clocal.result) /\ cpc' # "Fatal")
          => cpc' = "c_revise"
    /\ cpc = "c_revise"
          => /\ cpc' = "c_wait" /\ epc' = "rev_load" /\ eparent' = "critic"
             /\ calls'.revise = calls.revise + 1
    /\ calls'.critique # calls.critique
          => /\ calls'.critique = calls.revise + 1
             /\ calls.revise < MAX_ITERATIONS

C22_EveryIterationRevises ==
    /\ [](/\ cpc = "Capped"
                => /\ calls.revise = MAX_ITERATIONS
                   /\ calls.critique = MAX_ITERATIONS
                   /\ iteration = MAX_ITERATIONS
          /\ cpc = "c_for" => calls.revise = iteration
          /\ cpc = "c_wait" => calls.revise = iteration)
    /\ [][RevisionFollowsCritique]_vars

C22_Witness ==
    /\ cpc = "Capped" /\ calls.revise = MAX_ITERATIONS
    /\ StartsWith(SplitLines(files[explanation_path])[3], <<"R","e","v","i","s","e","d"," "," "," ",":"," ">>)

\* C23: in every iteration whose critique is not an approval the critique is on
\* disk before the revision is started: from the moment the controller turns
\* to the revision until explainer.py revise has read its files, the critique
\* file named to it is the header of this iteration followed by the text the
\* critique call of this iteration returned.
SavedCritiqueOf(iter, text) ==
    {critique_header(timestamp, iter) \o text : timestamp \in Timestamps}

C23_CritiqueSavedBeforeRevision ==
    /\ cpc = "c_revise"
          => /\ Exists(files, ACTIVE_CRITIQUE_FILE)
             /\ files[ACTIVE_CRITIQUE_FILE]
                   \in SavedCritiqueOf(iteration, calls.returned)
    /\ (cpc = "c_wait" /\ eparent = "critic" /\ epc = "rev_load")
          => /\ Exists(files, eargs[2])
             /\ files[eargs[2]] \in SavedCritiqueOf(iteration, calls.returned)
             /\ calls.critique = iteration

C23_Witness ==
    /\ cpc = "c_wait" /\ eparent = "critic" /\ epc = "rev_load"
    /\ iteration = 3 /\ calls.returned = <<"R","e","d","o">>
    /\ previous_critique = calls.returned

\* C24: the previous critique handed to the critique call is empty in
\* iteration 1 and, in a later iteration k, the text the critique call of
\* iteration k-1 returned, without the file header: when the call of iteration
\* k is about to be made the last text returned is that of iteration k-1.
C24_PreviousCritiqueIsLastReturned ==
    cpc = "c_critique"
        => /\ calls.critique = iteration - 1
           /\ previous_critique =
                 IF iteration = 1 THEN <<>> ELSE calls.returned
           /\ iteration > 1 => ~StartsWith(previous_critique, <<"A","C","T","I","V","E">>)

\* the third call is handed "Redo", the text of the second, after the first
\* returned "Fix it"
C24_Witness ==
    /\ cpc = "c_critique" /\ iteration = 3
    /\ previous_critique = <<"R","e","d","o">>
    /\ \E timestamp \in Timestamps :
          files[ACTIVE_CRITIQUE_FILE] = critique_header(timestamp, 2) \o <<"R","e","d","o">>

\* C25: the exit code of a failed revision goes up unchanged: when explainer.py
\* revise, started by the controller, has exited with a non-zero code and the
\* controller has ended on it, the controller's exit code is that code, and so
\* is the orchestrator's once it has ended.
C25_FailureCodePropagated ==
    (cpc = "Fatal" /\ eparent = "critic" /\ eexit \notin {-1, 0})
        => /\ cexit = eexit
           /\ (opc = "done" /\ invoked = <<"planner", "explainer", "critic">>)
                 => oexit = eexit

\* a line of '=' characters
IsRule(line) == line # <<>> /\ \A i \in 1..Len(line) : line[i] = "="

\* a header closed by the second of two lines of '=', then a blank line, then
\* the body
HasHeaderBlock(text) ==
    LET lines == SplitLines(text)
        rules == {k \in 1..Len(lines) : IsRule(lines[k])}
    IN  \E first \in rules, second \in rules :
            /\ first < second
            /\ \A k \in rules : k >= first
            /\ \A k \in rules : k = first \/ k >= second
            /\ second + 1 < Len(lines)
            /\ lines[second + 1] = <<>>
            /\ lines[second + 2] # <<>>

\* C26: every artifact the pipeline has just written begins with a header
\* block delimited by two lines of '=' that a blank line and the body follow:
\* the explanation when explainer.py generate or revise has ended with success,
\* the critique when the controller has saved it and turns to the revision.
C26_ArtifactsStartWithHeaderBlock ==
    /\ (epc = "done" /\ eexit = 0 /\ Len(eargs) = 1)
          => HasHeaderBlock(files[derive_explanation_path(eargs[1])])
    /\ (epc = "done" /\ eexit = 0 /\ Len(eargs) = 2)
          => HasHeaderBlock(files[eargs[1]])
    /\ cpc = "c_revise" => HasHeaderBlock(files[ACTIVE_CRITIQUE_FILE])

\* C27: the orchestrator and the planner derive the same slug from every
\* topic: what either sanitize_filename has returned for a topic is what the
\* other one returns for it, so the outline path the orchestrator checks is the
\* one the planner wrote.
C27_SlugsAgree ==
    /\ called = "orchestrator" => ret = planner_sanitize_filename(arg)
    /\ called = "planner" => ret = orchestrator_sanitize_filename(arg)

C27_Witness ==
    /\ called = "orchestrator" /\ arg = <<" ", "B", "!">> /\ ret = <<"b">>
    /\ planner_sanitize_filename(arg) = <<"b">>

\* the header of an explanation written by module_generate from an outline
GeneratedHeader(content, outline) ==
    LET lines == SplitLines(content)
    IN  /\ Len(lines) > 6
        /\ lines[1] = <<"L","E","C","T","U","R","E"," ","E","X","P","L","A","N","A","T","I","O","N">> /\ lines[2] = Rule
        /\ \E timestamp \in Timestamps :
              lines[3] = <<"G","e","n","e","r","a","t","e","d"," ",":"," ">> \o timestamp
        /\ lines[4] = <<"M","o","d","e","l"," "," "," "," "," ",":"," ">> \o MODEL_NAME
        /\ lines[5] = <<"S","o","u","r","c","e"," "," "," "," ",":"," ">> \o Basename(outline)
        /\ lines[6] = Rule /\ lines[7] = <<>>

\* the header of an explanation written by module_revise
RevisedHeader(content, source, critique) ==
    LET lines == SplitLines(content)
    IN  /\ Len(lines) > 7
        /\ lines[1] = <<"L","E","C","T","U","R","E"," ","E","X","P","L","A","N","A","T","I","O","N">> /\ lines[2] = Rule
        /\ \E timestamp \in Timestamps :
              lines[3] = <<"R","e","v","i","s","e","d"," "," "," ",":"," ">> \o timestamp
        /\ lines[4] = <<"M","o","d","e","l"," "," "," "," "," ",":"," ">> \o MODEL_NAME
        /\ lines[5] = <<"S","o","u","r","c","e"," "," "," "," ",":"," ">> \o source
        /\ lines[6] = <<"C","r","i","t","i","q","u","e"," "," ",":"," ">> \o Basename(critique)
        /\ lines[7] = Rule /\ lines[8] = <<>>

\* C28: when explainer.py generate has ended with success the explanation has
\* the header Generated, Model, Source (the base name of the outline) and no
\* Critique line; when explainer.py revise has ended with success on an
\* explanation generated from an outline, its header has Revised in the place
\* of Generated, Model, the Source of the generation carried forward, and
\* Critique with the base name of the critique file.
C28_HeaderFields ==
    /\ (epc = "done" /\ eexit = 0 /\ Len(eargs) = 1)
          => GeneratedHeader(files[derive_explanation_path(eargs[1])], eargs[1])
    /\ \A o \in OutlineNames :
          (/\ epc = "done" /\ eexit = 0 /\ Len(eargs) = 2
           /\ eargs[1] = derive_explanation_path(o)
           /\ generated[eargs[1]] # <<>>)
             => RevisedHeader(files[eargs[1]], Basename(o), eargs[2])

\* the steps of an iteration up to its approval: only the approval touches the
\* directory, and it takes the critique file away and nothing else
ApprovedIterationFrame ==
    /\ cpc \in {"c_for", "c_load", "c_critique"} => files' = files
    /\ (cpc = "c_load" /\ cpc' = "c_critique")
          => clocal'.loaded = load_file(files, explanation_path).text
    /\ (cpc = "c_verdict" /\ cpc' = "Approved")
          => /\ DOMAIN files' = DOMAIN files \ {ACTIVE_CRITIQUE_FILE}
             /\ \A f \in DOMAIN files' : files'[f] = files[f]

\* C29: when an iteration ends Approved the explanation file holds the text
\* its critique call reviewed (the text handed to the call is what the file
\* holds when the call is made, and no step from there to the approval changes
\* the file), and the one change the iteration makes to the directory is the
\* removal of the critique file.
C29_ApprovalOnlyRemovesCritique ==
    /\ [](cpc = "c_critique"
            => clocal.loaded = load_file(files, explanation_path).text)
    /\ [][ApprovedIterationFrame]_vars

\* approved in the second iteration: the explanation is the revised one and
\* the critique of the first iteration is gone
C29_Witness ==
    /\ cpc = "Approved" /\ iteration = 2 /\ calls.revise = 1
    /\ ~Exists(files, ACTIVE_CRITIQUE_FILE)
    /\ StartsWith(SplitLines(files[explanation_path])[3], <<"R","e","v","i","s","e","d"," "," "," ",":"," ">>)

\* C30: the outline path derived from the explanation path derived from an
\* outline path is that outline path, whatever the outline's file name.
C30_OutlinePathRoundTrip ==
    called = "derive_outline_path" => ret = arg
====
